---- MODULE Spec2Model ----
(***************************************************************************)
(* Elaboration core of the VHDL/Verilog compiler (src/src/elab.c).         *)
(*                                                                         *)
(* The mutually recursive descent of elab.c is modelled as a stack         *)
(* machine: every elaboration context (elab_ctx_t) is a frame of `stack',  *)
(* the statements its elab_stmts loop still has to visit are the frame's   *)
(* `todo' list, and the output tree is the sequence `blocks'.              *)
(***************************************************************************)
EXTENDS Integers, Sequences, FiniteSets, TLC

VARIABLES
    pc,                 \* position of the driver: setup, run, done, fatal
    design,             \* the analysed design handed to elab() (library contents)
    generic_override,   \* the process-wide override list, head first
    stack,              \* chain of elaboration contexts, root first
    blocks,             \* output tree: blocks[1] is the T_ELAB node
    diags,              \* diagnostics emitted so far
    result,             \* what elab() returned
    registered,         \* history: names given to elab_set_generic
    consumed,           \* history: overrides removed by elab_find_generic_override
    genlog,             \* history: one entry per generic resolved by elab_generics
    evals,              \* history: generate conditions handed to elab_generate_test
    lowered_units,      \* history: lower_instance / unit_registry_finalise calls
    modcache,           \* the Verilog modules elab_cached_module has cached
    walk,               \* architecture chooser: the library walk in progress
    binding,            \* default binding: the component/entity pair and its result
    complog,            \* history: one entry per call of elab_component
    modlog,             \* history: one entry per call of elab_cached_module
    phases,             \* history: the phases of the handlers, in the order run
    uses,               \* history: the lowered unit each step was handed
    vbind,              \* binding helpers run on their own: the inputs and the result so far
    first_run,          \* what an earlier call of elab() in this process returned
    vhpi                \* the VHPI test plugin and the simulation kernel under it

vars == <<pc, design, generic_override, stack, blocks, diags, result,
          registered, consumed, genlog, evals, lowered_units, modcache, walk,
          binding, complog, modlog, phases, uses, vbind, first_run, vhpi>>

-----------------------------------------------------------------------------
(* Bounds of the model *)

MaxOverrides == 2
MaxIndex == 2
MaxModelDepth == 130
MaxMtime == 2
MaxLibUnits == 3
MaxWrapped == 2

(* Program constants *)

MAX_DEPTH == 127

NULL == ""

-----------------------------------------------------------------------------
(* Identifier service *)

RECURSIVE LastSep(_, _, _)
LastSep(s, seps, i) ==
    IF i = 0 THEN 0
    ELSE IF SubSeq(s, i, i) \in seps THEN i
    ELSE LastSep(s, seps, i - 1)

RECURSIVE FirstSep(_, _, _)
FirstSep(s, sep, i) ==
    IF i > Len(s) THEN 0
    ELSE IF SubSeq(s, i, i) = sep THEN i
    ELSE FirstSep(s, sep, i + 1)

\* ident_prefix(a, b, sep): a, sep, b joined; a NULL operand yields the other
ident_prefix(a, b, sep) ==
    IF a = NULL THEN b
    ELSE IF b = NULL THEN a
    ELSE a \o sep \o b

\* ident_until(i, c): the part of i before the first c, or i itself
ident_until(i, c) ==
    LET p == FirstSep(i, c, 1)
    IN  IF p = 0 THEN i ELSE SubSeq(i, 1, p - 1)

\* ident_rfrom(i, c): the part of i after the last c, or i itself
ident_rfrom(i, c) ==
    SubSeq(i, LastSep(i, {c}, Len(i)) + 1, Len(i))

UpperChars == "ABCDEFGHIJKLMNOPQRSTUVWXYZ"
LowerChars == "abcdefghijklmnopqrstuvwxyz"

tolower_iso88591(c) ==
    LET p == FirstSep(UpperChars, c, 1)
    IN  IF p = 0 THEN c ELSE SubSeq(LowerChars, p, p)

RECURSIVE LowerStr(_)
LowerStr(s) ==
    IF s = "" THEN ""
    ELSE tolower_iso88591(SubSeq(s, 1, 1)) \o LowerStr(SubSeq(s, 2, Len(s)))

toupper(c) ==
    LET p == FirstSep(LowerChars, c, 1)
    IN  IF p = 0 THEN c ELSE SubSeq(UpperChars, p, p)

\* tb_upcase
RECURSIVE UpperStr(_)
UpperStr(s) ==
    IF s = "" THEN ""
    ELSE toupper(SubSeq(s, 1, 1)) \o UpperStr(SubSeq(s, 2, Len(s)))

\* hpathf: the formatted text is lowercased, then appended to path after sep
hpathf(path, sep, text) == ident_prefix(path, LowerStr(text), sep)

\* simple_name: strips any library or entity prefix
simple_name(full) ==
    SubSeq(full, LastSep(full, {".", "-"}, Len(full)) + 1, Len(full))

\* whether p, followed by sep and at least one more character, starts s
IsExtension(s, p, sep) ==
    /\ Len(s) > Len(p) + 1
    /\ SubSeq(s, 1, Len(p)) = p
    /\ SubSeq(s, Len(p) + 1, Len(p) + 1) = sep

-----------------------------------------------------------------------------
(* int64_t: sign and magnitude, the magnitude in three limbs of nine decimal
   digits, most significant first *)

I64(n) == [neg |-> n < 0, mag |-> <<0, 0, IF n < 0 THEN 0 - n ELSE n>>]

INT64_MAX == [neg |-> FALSE, mag |-> <<9, 223372036, 854775807>>]

INT64_MIN == [neg |-> TRUE, mag |-> <<9, 223372036, 854775808>>]

MagLess(x, y) ==
    \/ x[1] < y[1]
    \/ x[1] = y[1] /\ x[2] < y[2]
    \/ x[1] = y[1] /\ x[2] = y[2] /\ x[3] < y[3]

MagSucc(x) ==
    IF x[3] < 999999999 THEN <<x[1], x[2], x[3] + 1>>
    ELSE IF x[2] < 999999999 THEN <<x[1], x[2] + 1, 0>>
    ELSE <<x[1] + 1, 0, 0>>

MagPred(x) ==
    IF x[3] > 0 THEN <<x[1], x[2], x[3] - 1>>
    ELSE IF x[2] > 0 THEN <<x[1], x[2] - 1, 999999999>>
    ELSE <<x[1] - 1, 999999999, 999999999>>

\* a <= b
I64Leq(a, b) ==
    IF a.neg # b.neg THEN a.neg
    ELSE IF a.neg THEN ~MagLess(a.mag, b.mag)
    ELSE ~MagLess(b.mag, a.mag)

\* a + 1 for a below INT64_MAX
I64Succ(a) ==
    IF a.neg
    THEN [neg |-> MagPred(a.mag) # <<0, 0, 0>>, mag |-> MagPred(a.mag)]
    ELSE [neg |-> FALSE, mag |-> MagSucc(a.mag)]

\* a limb printed with its leading zeros
Pad9(n) ==
    SubSeq("000000000", 1, 9 - Len(ToString(n))) \o ToString(n)

MagToString(x) ==
    IF x[1] # 0 THEN ToString(x[1]) \o Pad9(x[2]) \o Pad9(x[3])
    ELSE IF x[2] # 0 THEN ToString(x[2]) \o Pad9(x[3])
    ELSE ToString(x[3])

\* printf("%" PRIi64, a)
I64ToString(a) == (IF a.neg THEN "-" ELSE "") \o MagToString(a.mag)

-----------------------------------------------------------------------------
(* Tree nodes of the analysed design *)

Lit(n) == [kind |-> "T_LITERAL", subkind |-> "L_INT", ival |-> n]

Ref(name) == [kind |-> "T_REF", ident |-> name]

Open == [kind |-> "T_OPEN"]

is_literal(t) == t.kind = "T_LITERAL"

\* a T_PARAM with subkind P_POS
PosParam(i, value) ==
    [kind |-> "T_PARAM", subkind |-> "P_POS", pos |-> i, name |-> NULL,
     conv |-> FALSE, plain |-> TRUE, value |-> value]

\* a T_PARAM with subkind P_NAMED, whose name refers to the formal `name'
NamedParam(name, value) ==
    [kind |-> "T_PARAM", subkind |-> "P_NAMED", pos |-> 0, name |-> name,
     conv |-> FALSE, plain |-> TRUE, value |-> value]

Generic(id, class, type, has_value, value) ==
    [kind |-> "T_GENERIC_DECL", ident |-> id, class |-> class, type |-> type,
     has_value |-> has_value, value |-> value]

Port(id, type, mode, has_value, unconstrained) ==
    [kind |-> "T_PORT_DECL", ident |-> id, type |-> type, subkind |-> mode,
     has_value |-> has_value, unconstrained |-> unconstrained,
     value |-> IF has_value THEN Lit(0) ELSE Open]

Process(id) == [kind |-> "T_PROCESS", ident |-> id]

\* no configuration specification, no block configuration
NoSpec == [kind |-> "NULL"]

NoConfig == [kind |-> "NULL"]

\* a T_BLOCK_CONFIG: id is the label of the block it configures, ref the
\* architecture, decls its specifications and nested block configurations
BlockConfig(id, ref, decls) ==
    [kind |-> "T_BLOCK_CONFIG", ident |-> id, ref |-> ref, decls |-> decls]

\* a T_SPEC for the instances of component comp: has_ident says whether it
\* names an instance label (or all), value is its binding indication
ConfSpec(has_ident, id, comp, has_value, value, decls) ==
    [kind |-> "T_SPEC", has_ident |-> has_ident, ident |-> id, ident2 |-> comp,
     has_value |-> has_value, value |-> value, decls |-> decls]

\* an instance statement; ref names the instantiated unit or component
Instance(id, ref, genmaps) ==
    [kind |-> "T_INSTANCE", ident |-> id, ref |-> ref, genmaps |-> genmaps,
     params |-> <<>>, spec |-> NoSpec]

\* an instance statement to which a configuration specification applies
SpecInstance(id, ref, genmaps, spec) ==
    [kind |-> "T_INSTANCE", ident |-> id, ref |-> ref, genmaps |-> genmaps,
     params |-> <<>>, spec |-> spec]

BlockStmt(id, generics, genmaps, stmts) ==
    [kind |-> "T_BLOCK", ident |-> id, generics |-> generics,
     genmaps |-> genmaps, ports |-> <<>>, params |-> <<>>, stmts |-> stmts]

\* range: static says whether the evaluator can fold the bounds
ForGenerate(id, static, left, right, dir, stmts) ==
    [kind |-> "T_FOR_GENERATE", ident |-> id,
     range |-> [static |-> static, left |-> left, right |-> right,
                subkind |-> dir],
     genvar |-> Generic("I", "C_CONSTANT", "INTEGER", FALSE, Open),
     stmts |-> stmts]

\* a T_COND: value is "true", "false" or "nonstatic"; the else branch has none
Cond(id, has_value, value, stmts) ==
    [kind |-> "T_COND", ident |-> id, has_value |-> has_value,
     value |-> value, stmts |-> stmts]

IfGenerate(id, conds) ==
    [kind |-> "T_IF_GENERATE", ident |-> id, conds |-> conds]

\* chosen: what eval_case picks (0 when no alternative applies)
CaseGenerate(id, chosen, alts) ==
    [kind |-> "T_CASE_GENERATE", ident |-> id, chosen |-> chosen,
     alts |-> alts]

Alt(id, stmts) == [kind |-> "T_ALTERNATIVE", ident |-> id, stmts |-> stmts]

\* a T_VERILOG node wrapping a Verilog statement that is no module instance
VerilogStmt(id) == [kind |-> "T_VERILOG", vkind |-> "V_ALWAYS", ident |-> id]

\* a T_VERILOG node wrapping a V_MOD_INST: the instance id of module modname
ModInst(id, modname, params) ==
    [kind |-> "T_VERILOG", vkind |-> "V_MOD_INST", ident |-> id,
     ident2 |-> modname, params |-> params]

-----------------------------------------------------------------------------
(* The library: design units by name, and the library index *)

WidthGeneric(has_value) ==
    Generic("WIDTH", "C_CONSTANT", "INTEGER", has_value,
            IF has_value THEN Lit(8) ELSE Open)

\* the object a name denotes in design d (lib_get, tree_ref); NULL when none
Obj(d, name) ==
    CASE name = "WORK.TOP" ->
           [kind |-> "T_ENTITY", ident |-> "WORK.TOP",
            generics |-> d.top_generics, ports |-> d.top_ports,
            stmts |-> d.top_stmts]
      [] name = "WORK.TOP-RTL" ->
           [kind |-> "T_ARCH", ident |-> "WORK.TOP-RTL", ident2 |-> "WORK.TOP",
            stmts |-> d.body]
      [] name = "WORK.SUB" ->
           [kind |-> "T_ENTITY", ident |-> "WORK.SUB",
            generics |-> d.sub_generics, ports |-> d.sub_ports,
            stmts |-> <<>>]
      [] name = "WORK.SUB-RTL" ->
           [kind |-> "T_ARCH", ident |-> "WORK.SUB-RTL", ident2 |-> "WORK.SUB",
            stmts |-> <<Process("P1")>>]
      [] name = "WORK.SUB-TB" ->
           [kind |-> "T_ARCH", ident |-> "WORK.SUB-TB", ident2 |-> "WORK.SUB",
            stmts |-> <<>>]
      [] name = "SUB" ->
           [kind |-> "T_COMPONENT", ident |-> "SUB",
            generics |-> d.comp_generics, ports |-> d.comp_ports]
      [] name = "TOP" ->
           [kind |-> "T_COMPONENT", ident |-> "TOP",
            generics |-> d.top_generics, ports |-> d.top_ports]
      [] name = "VSUB" ->
           [kind |-> "T_COMPONENT", ident |-> "VSUB",
            generics |-> <<>>, ports |-> d.comp_ports]
      [] name = "NOSUCH" ->
           [kind |-> "T_COMPONENT", ident |-> "NOSUCH",
            generics |-> <<>>, ports |-> <<>>]
      [] name = "WORK.CFG" ->
           [kind |-> "T_CONFIGURATION", ident |-> "WORK.CFG",
            decls |-> <<d.config>>]
      [] name = "WORK.SUBCFG" ->
           [kind |-> "T_CONFIGURATION", ident |-> "WORK.SUBCFG",
            decls |-> <<BlockConfig(NULL, "WORK.SUB-TB", <<>>)>>]
      [] name = "WORK.PKG" ->
           [kind |-> "T_PACKAGE", ident |-> "WORK.PKG"]
      [] name = "WORK.VMOD" ->
           [kind |-> "V_MODULE", ident |-> "WORK.VMOD", ident2 |-> "vmod",
            ports |-> <<>>, stmts |-> d.vbody]
      [] name = "WORK.VSUB" ->
           [kind |-> "V_MODULE", ident |-> "WORK.VSUB", ident2 |-> "vsub",
            ports |-> <<>>, stmts |-> <<VerilogStmt("a1")>>]
      [] OTHER -> [kind |-> "NULL"]

\* the index lib_walk_index enumerates: name, kind, modification time, source
LibEntry(name, kind, mtime, file, line) ==
    [name |-> name, kind |-> kind, mtime |-> mtime, file |-> file,
     first_line |-> line]

WorkIndex ==
    << LibEntry("WORK.TOP", "T_ENTITY", 10, "top.vhd", 1),
       LibEntry("WORK.TOP-RTL", "T_ARCH", 10, "top.vhd", 5),
       LibEntry("WORK.SUB", "T_ENTITY", 10, "sub.vhd", 1),
       LibEntry("WORK.SUB-RTL", "T_ARCH", 20, "sub.vhd", 5),
       LibEntry("WORK.SUB-TB", "T_ARCH", 10, "sub.vhd", 20),
       LibEntry("WORK.VMOD", "V_MODULE", 10, "vmod.v", 1),
       LibEntry("WORK.VSUB", "V_MODULE", 10, "vsub.v", 1) >>

-----------------------------------------------------------------------------
(* Architecture chooser *)

\* lib_search_params_t before the walk; nwarn counts the warnf calls
SearchParams(search) ==
    [search |-> search, chosen |-> NULL, mtime |-> 0, nwarn |-> 0]

\* the index entry recorded under name (lib_get, lib_get_mtime)
EntryOf(index, name) ==
    index[CHOOSE i \in DOMAIN index : index[i].name = name]

\* elab_find_arch_cb with a tie broken in favour of the older unit
find_arch_cb_keeps_older(index, params, e) ==
    IF e.kind # "T_ARCH" \/ ident_until(e.name, "-") # params.search
    THEN params
    ELSE IF params.chosen = NULL
    THEN [params EXCEPT !.chosen = e.name, !.mtime = e.mtime]
    ELSE IF e.mtime < params.mtime
    THEN [params EXCEPT !.chosen = e.name, !.mtime = e.mtime]
    ELSE params

\* elab_find_arch_cb with the tie in one file broken by a strictly greater
\* first line
find_arch_cb_strict_line(index, params, e) ==
    IF e.kind # "T_ARCH" \/ ident_until(e.name, "-") # params.search
    THEN params
    ELSE IF params.chosen = NULL \/ e.mtime > params.mtime
    THEN [params EXCEPT !.chosen = e.name, !.mtime = e.mtime]
    ELSE IF e.mtime < params.mtime THEN params
    ELSE IF EntryOf(index, params.chosen).file # e.file
    THEN [params EXCEPT !.nwarn = @ + 1]
    ELSE IF e.first_line > EntryOf(index, params.chosen).first_line
    THEN [params EXCEPT !.chosen = e.name]
    ELSE params

\* one call of the lib_walk_index callback on index entry e
elab_find_arch_cb(index, params, e) ==
    LET prefix == ident_until(e.name, "-")
    IN  IF e.kind # "T_ARCH" \/ prefix # params.search
        THEN params
        ELSE IF params.chosen = NULL
        THEN [params EXCEPT !.chosen = e.name, !.mtime = e.mtime]
        ELSE IF e.mtime > params.mtime
        THEN [params EXCEPT !.chosen = e.name, !.mtime = e.mtime]
        ELSE IF e.mtime = params.mtime
        THEN \* use source file line numbers to break the tie
             LET old == EntryOf(index, params.chosen)
             IN  IF old.file # e.file
                 THEN [params EXCEPT !.nwarn = @ + 1]
                 ELSE IF e.first_line >= old.first_line
                 THEN [params EXCEPT !.chosen = e.name]
                 ELSE params
        ELSE params

RECURSIVE WalkIndex(_, _, _)
WalkIndex(index, params, i) ==
    IF i > Len(index) THEN params
    ELSE WalkIndex(index, elab_find_arch_cb(index, params, index[i]), i + 1)

\* the name searched for an entity: library name '.' simple entity name
SearchName(entity_name) ==
    ident_prefix(ident_until(entity_name, "."), ident_rfrom(entity_name, "."), ".")

\* elab_pick_arch: the walk's result; chosen = NULL is the fatal
\* "no suitable architecture"
elab_pick_arch(index, entity_name) ==
    WalkIndex(index, SearchParams(SearchName(entity_name)), 1)

-----------------------------------------------------------------------------
(* The elaboration state as one record, so that a handler's steps compose *)

Cur ==
    [pc |-> pc, ov |-> generic_override, stack |-> stack, blocks |-> blocks,
     diags |-> diags, result |-> result, consumed |-> consumed,
     genlog |-> genlog, evals |-> evals, units |-> lowered_units,
     modcache |-> modcache, complog |-> complog, modlog |-> modlog,
     phases |-> phases, uses |-> uses]

Set(m) ==
    /\ pc' = m.pc
    /\ generic_override' = m.ov
    /\ stack' = m.stack
    /\ blocks' = m.blocks
    /\ diags' = m.diags
    /\ result' = m.result
    /\ consumed' = m.consumed
    /\ genlog' = m.genlog
    /\ evals' = m.evals
    /\ lowered_units' = m.units
    /\ modcache' = m.modcache
    /\ complog' = m.complog
    /\ modlog' = m.modlog
    /\ phases' = m.phases
    /\ uses' = m.uses

Diag(level, msg, arg) == [level |-> level, msg |-> msg, arg |-> arg]

error_at(m, msg, arg) ==
    [m EXCEPT !.diags = Append(@, Diag("error", msg, arg))]

warn_at(m, msg, arg) ==
    [m EXCEPT !.diags = Append(@, Diag("warning", msg, arg))]

fatal(m, msg, arg) ==
    [m EXCEPT !.diags = Append(@, Diag("fatal", msg, arg)), !.pc = "fatal"]

ErrorsIn(ds) == {i \in DOMAIN ds : ds[i].level = "error"}

error_count(m) == Cardinality(ErrorsIn(m.diags))

Top(m) == m.stack[Len(m.stack)]

\* op is handed ctx->lowered and reads ctx->scope, which elab_lower sets
\* together; for is the block whose handler does so
use(m, op, ctx, for) ==
    [m EXCEPT !.uses = Append(@, [op |-> op, for |-> for, of |-> ctx.out,
                                  root |-> ctx.kind = "root",
                                  lowered |-> ctx.lowered])]

-----------------------------------------------------------------------------
(* Output tree *)

NewBlock(id, parent) ==
    [kind |-> "T_BLOCK", ident |-> id, parent |-> parent, hier |-> <<>>,
     generics |-> <<>>, genmaps |-> <<>>, ports |-> <<>>, params |-> <<>>,
     stmts |-> <<>>]

ElabNode(name) ==
    [kind |-> "T_ELAB", ident |-> name, parent |-> 0, hier |-> <<>>,
     generics |-> <<>>, genmaps |-> <<>>, ports |-> <<>>, params |-> <<>>,
     stmts |-> <<>>]

\* tree_new(T_BLOCK) followed by tree_add_stmt(ctx->out, b); the new block is
\* the last of m.blocks
add_block(m, id, out) ==
    LET b == Len(m.blocks) + 1
    IN  [m EXCEPT !.blocks =
            Append([@ EXCEPT ![out].stmts =
                       Append(@, [kind |-> "T_BLOCK", block |-> b])],
                   NewBlock(id, out))]

\* tree_add_stmt(ctx->out, t) for a statement copied through
add_stmt(m, out, t) ==
    [m EXCEPT !.blocks[out].stmts = Append(@, t)]

\* elab_push_scope: a T_HIER decl carrying the path and the dotted name
elab_push_scope(m, subkind, ctx) ==
    [m EXCEPT !.blocks[ctx.out].hier =
        Append(@, [kind |-> "T_HIER", subkind |-> subkind,
                   ident |-> ctx.inst_name, ident2 |-> ctx.dotted])]

-----------------------------------------------------------------------------
(* Generic overrides *)

Digits == "0123456789"

\* parse_value for an integer type: the value, or -1 when str is no number
RECURSIVE ParseDigits(_, _)
ParseDigits(str, acc) ==
    IF str = "" THEN acc
    ELSE LET p == FirstSep(Digits, SubSeq(str, 1, 1), 1)
         IN  IF p = 0 THEN -1
             ELSE ParseDigits(SubSeq(str, 2, Len(str)), acc * 10 + (p - 1))

parse_value(type, str) ==
    IF str = "" THEN -1 ELSE ParseDigits(str, 0)

\* how many contexts, from ctx outwards, the loop over e->inst / e->parent
\* visits before it meets one without an instance
ChainLen(insts) ==
    IF \E k \in DOMAIN insts : insts[k] = NULL
    THEN (CHOOSE k \in DOMAIN insts :
             insts[k] = NULL /\ \A j \in 1..(k - 1) : insts[j] # NULL) - 1
    ELSE Len(insts)

\* the labels insts[lo..hi] joined by '.', the outermost (insts[hi]) first
RECURSIVE JoinLabels(_, _, _)
JoinLabels(insts, lo, hi) ==
    IF lo = hi THEN insts[lo]
    ELSE LET mid == (lo + hi) \div 2
         IN  ident_prefix(JoinLabels(insts, mid + 1, hi),
                          JoinLabels(insts, lo, mid), ".")

\* the fully qualified name a generic is looked up under: every visited
\* context prefixes the label of its instance; insts lists the inst fields
\* from ctx outwards
QualName(ident, insts) ==
    LET n == ChainLen(insts)
    IN  IF n = 0 THEN ident
        ELSE ident_prefix(JoinLabels(insts, 1, n), ident, ".")

\* position of the first node of the list whose name is qual, 0 when none
OverrideAt(ov, qual) ==
    IF \E i \in DOMAIN ov : ov[i].name = qual
    THEN CHOOSE i \in DOMAIN ov :
            ov[i].name = qual /\ \A j \in 1..(i - 1) : ov[j].name # qual
    ELSE 0

RemoveAt(seq, i) == SubSeq(seq, 1, i - 1) \o SubSeq(seq, i + 1, Len(seq))

\* *it = (tmp = *it)->next; free(tmp)
unlink_override(ov, i) == RemoveAt(ov, i)

\* the override found at position it of the list: parsed, unlinked, returned
take_override(m, g, qual, it, n) ==
    IF n < 0 \/ g.type # "INTEGER"
    THEN [m |-> fatal(m, "failed to parse generic", g.ident),
          value |-> [kind |-> "NULL"]]
    ELSE [m |-> [m EXCEPT !.ov = unlink_override(@, it),
                          !.consumed = Append(@, [name |-> qual,
                                                  generic |-> g.ident])],
          value |-> Lit(n)]

\* the search of the list for the qualified name
find_override(m, g, qual, it) ==
    IF it = 0 THEN [m |-> m, value |-> [kind |-> "NULL"]]
    ELSE take_override(m, g, qual, it, parse_value(g.type, m.ov[it].value))

\* elab_find_generic_override: [m, value]; value.kind = "NULL" when no
\* override applies
elab_find_generic_override(m, g, insts) ==
    IF m.ov = <<>> THEN [m |-> m, value |-> [kind |-> "NULL"]]
    ELSE find_override(m, g, QualName(g.ident, insts),
                       OverrideAt(m.ov, QualName(g.ident, insts)))

-----------------------------------------------------------------------------
(* Generic resolution *)

\* index of the generic called name among block b's generics, 0 when none
GenericIndex(b, name) ==
    IF \E i \in DOMAIN b.generics : b.generics[i].ident = name
    THEN CHOOSE i \in DOMAIN b.generics : b.generics[i].ident = name
    ELSE 0

\* the maps of block b for its generic at tree position pos
MapsOf(b, pos) == {j \in DOMAIN b.genmaps : b.genmaps[j].pos = pos}

\* eval_try_fold of a reference against the parent scope: the literal the
\* parent block maps the referenced generic to, or the value itself
eval_try_fold(m, value, parent) ==
    LET b == m.blocks[parent.out]
        i == GenericIndex(b, value.ident)
    IN  IF i = 0 \/ MapsOf(b, i - 1) = {} THEN value
        ELSE IF is_literal(b.genmaps[CHOOSE j \in MapsOf(b, i - 1) : TRUE].value)
        THEN b.genmaps[CHOOSE j \in MapsOf(b, i - 1) : TRUE].value
        ELSE value

\* the map elab_generics settles on with the actual taking precedence over
\* a matching override
choose_map_actual_first(i, g, bind, override) ==
    IF i <= Len(bind.genmaps) THEN bind.genmaps[i]
    ELSE IF override.kind # "NULL" THEN PosParam(i - 1, override)
    ELSE IF g.has_value THEN PosParam(i - 1, g.value)
    ELSE [kind |-> "NULL"]

\* the map elab_generics settles on for the i-th generic g (i counts from 1,
\* tree positions from 0): actual, else default, and an override replaces both
choose_map(i, g, bind, override) ==
    IF override.kind # "NULL" THEN PosParam(i - 1, override)
    ELSE IF i <= Len(bind.genmaps) THEN bind.genmaps[i]
    ELSE IF g.has_value THEN PosParam(i - 1, g.value)
    ELSE [kind |-> "NULL"]

\* what the history keeps of one resolution: the inputs elab_generics saw
GenericEntry(m, i, g, bind, ctx, insts) ==
    [out |-> ctx.out, pos |-> i - 1, ident |-> g.ident,
     qual |-> QualName(g.ident, insts), table |-> m.ov,
     has_actual |-> i <= Len(bind.genmaps),
     actual |-> IF i <= Len(bind.genmaps) THEN bind.genmaps[i].value ELSE Open,
     has_default |-> g.has_value, default |-> g.value]

\* the switch on the kind of the value: a reference is folded where possible
fold_map(m, g, map, folded) ==
    IF map.value.kind = "T_REF" /\ g.class # "C_PACKAGE" /\ folded # map.value
    THEN PosParam(map.pos, folded)
    ELSE map

\* tree_add_genmap(ctx->out, map)
add_genmap(m, map, ctx, entry) ==
    [m EXCEPT !.blocks[ctx.out].genmaps = Append(@, map),
              !.genlog = Append(@, entry @@
                            [placed |-> TRUE, value |-> map.value])]

\* the second half of the loop body, once the map is settled
place_generic(m, g, map, ctx, entry) ==
    IF map.kind = "NULL"
    THEN [error_at(m, "missing value for generic", g.ident)
             EXCEPT !.genlog = Append(@, entry @@
                                  [placed |-> FALSE, value |-> Open])]
    ELSE add_genmap(IF map.value.kind = "T_REF" /\ g.class # "C_PACKAGE"
                    THEN use(m, "eval_try_fold", Top(m), ctx.out)
                    ELSE m,
            fold_map(m, g, map,
                     IF map.value.kind = "T_REF"
                     THEN eval_try_fold(m, map.value, Top(m))
                     ELSE map.value),
            ctx, entry)

\* the first half: fo is what elab_find_generic_override returned
settle_generic(fo, i, g, bind, ctx, entry) ==
    IF fo.m.pc = "fatal" THEN fo.m
    ELSE place_generic(fo.m, g, choose_map(i, g, bind, fo.value), ctx, entry)

\* one iteration of the loop of elab_generics
elab_generic(m, i, g, bind, ctx, insts) ==
    settle_generic(
        elab_find_generic_override(
            [m EXCEPT !.blocks[ctx.out].generics = Append(@, g)], g, insts),
        i, g, bind, ctx, GenericEntry(m, i, g, bind, ctx, insts))

RECURSIVE elab_generics_from(_, _, _, _, _, _)
elab_generics_from(m, i, generics, bind, ctx, insts) ==
    IF i > Len(generics) \/ m.pc = "fatal" THEN m
    ELSE elab_generics_from(elab_generic(m, i, generics[i], bind, ctx, insts),
                            i + 1, generics, bind, ctx, insts)

\* elab_generics(entity, bind, ctx): ctx is the context being set up, whose
\* parent is the top of m.stack
elab_generics(m, generics, bind, ctx, insts) ==
    elab_generics_from(m, 1, generics, bind, ctx, insts)

-----------------------------------------------------------------------------
(* Port maps *)

\* the named associations of bind for port p, in order, as elab_ports emits
\* them; st = [params, have_named, found]
RECURSIVE NamedMaps(_, _, _, _, _)
NamedMaps(bind, j, p, i, st) ==
    IF j > Len(bind.params) THEN st
    ELSE
      LET mp == bind.params[j]
      IN  IF mp.subkind # "P_NAMED" \/ mp.name # p.ident
          THEN NamedMaps(bind, j + 1, p, i, st)
          ELSE IF ~st.have_named /\ ~mp.conv /\ mp.plain
          THEN \* association of the whole port: becomes positional, break
               [st EXCEPT !.params = Append(@, PosParam(i - 1, mp.value)),
                          !.found = TRUE]
          ELSE NamedMaps(bind, j + 1, p, i,
                  [params |-> Append(st.params,
                      [mp EXCEPT !.name = p.ident]),
                   have_named |-> TRUE, found |-> TRUE])

\* the map for port p when no association names it: open
open_map(st, i, p) ==
    IF st.found THEN st
    ELSE [st EXCEPT !.params = Append(@,
             IF st.have_named
             THEN [NamedParam(p.ident, Open) EXCEPT !.pos = 0]
             ELSE PosParam(i - 1, Open))]

\* the maps for the i-th port p, st0 being the state before the iteration
port_maps(bind, i, p, st0) ==
    IF i <= Len(bind.params) /\ ~st0.have_named /\ bind.params[i].subkind = "P_POS"
    THEN [st0 EXCEPT !.params = Append(@, bind.params[i]), !.found = TRUE]
    ELSE open_map(NamedMaps(bind, 1, p, i, st0), i, p)

\* tree_add_param for the maps, tree_add_port for the port
add_port(m, p, out, st) ==
    [m |-> [m EXCEPT !.blocks[out].params = st.params,
                     !.blocks[out].ports = Append(@, p)],
     have_named |-> st.have_named]

\* one iteration of the loop of elab_ports
elab_port(m, i, p, bind, out, have_named) ==
    add_port(m, p, out,
             port_maps(bind, i, p,
                       [params |-> m.blocks[out].params,
                        have_named |-> have_named, found |-> FALSE]))

RECURSIVE elab_ports_from(_, _, _, _, _)
elab_ports_from(r, i, ports, bind, out) ==
    IF i > Len(ports) THEN r.m
    ELSE elab_ports_from(elab_port(r.m, i, ports[i], bind, out, r.have_named),
                         i + 1, ports, bind, out)

\* elab_ports(entity, bind, ctx); a fatal error has ended the run before it
elab_ports(m, ports, bind, out) ==
    IF m.pc = "fatal" THEN m
    ELSE elab_ports_from([m |-> m, have_named |-> FALSE], 1, ports, bind, out)

-----------------------------------------------------------------------------
(* Names and types *)

ident_casecmp(a, b) == LowerStr(a) = LowerStr(b)

\* the type a subtype was declared from: std_logic is a subtype of std_ulogic
type_base(t) == IF t = "STD_LOGIC" THEN "STD_ULOGIC" ELSE t

\* a subtype is the same type as its base
type_eq(a, b) == type_base(a) = type_base(b)

-----------------------------------------------------------------------------
(* The cache of Verilog modules *)

\* hash_get(ctx->modcache, mod): the position of mod's entry, 0 when none
hash_get(cache, mod) ==
    IF \E i \in DOMAIN cache : cache[i].module = mod.ident
    THEN CHOOSE i \in DOMAIN cache : cache[i].module = mod.ident
    ELSE 0

\* the records created so far; xcalloc returns a record distinct from them
Created(log) == {k \in DOMAIN log : log[k].created}

\* mc = xcalloc(...); vlog_lower; vlog_trans; hash_put(ctx->modcache, mod, mc)
new_mod_cache(m, mod, mc) ==
    [m EXCEPT !.modcache = Append(@, [module |-> mod.ident, record |-> mc]),
              !.modlog = Append(@, [module |-> mod.ident, created |-> TRUE,
                                    record |-> mc])]

\* elab_cached_module with the result of hash_get ignored: every query
\* lowers the module again and puts a new record
elab_cached_module_always_creates(m, mod) ==
    new_mod_cache(m, mod, Cardinality(Created(m.modlog)) + 1)

\* elab_cached_module(mod, ctx): a module is lowered and cached on first
\* use; every call and the record it returned is logged
elab_cached_module(m, mod) ==
    IF hash_get(m.modcache, mod) # 0
    THEN [m EXCEPT !.modlog =
             Append(@, [module |-> mod.ident, created |-> FALSE,
                        record |-> m.modcache[hash_get(m.modcache, mod)].record])]
    ELSE new_mod_cache(m, mod, Cardinality(Created(m.modlog)) + 1)

-----------------------------------------------------------------------------
(* Binding to a Verilog module: coercion tables and the two builders *)

\* the rows of the table of elab_to_vhdl
ToVhdlTable ==
    << [from |-> "VERILOG_LOGIC", to |-> "STD_LOGIC",
        func |-> "NVC.VERILOG.TO_VHDL(LOGIC)U"],
       [from |-> "VERILOG_NET_VALUE", to |-> "STD_LOGIC",
        func |-> "NVC.VERILOG.TO_VHDL(NET_VALUE)U"] >>

\* the rows of the table of elab_to_verilog
ToVerilogTable ==
    << [from |-> "STD_ULOGIC", to |-> "VERILOG_LOGIC",
        func |-> "NVC.VERILOG.TO_VERILOG(U)LOGIC"],
       [from |-> "STD_ULOGIC", to |-> "VERILOG_NET_VALUE",
        func |-> "NVC.VERILOG.TO_VERILOG(U)NET_VALUE"] >>

\* the rows of the table of elab_verilog_conversion
VerilogTable ==
    << [from |-> "VERILOG_NET_VALUE", to |-> "VERILOG_LOGIC",
        func |-> "NVC.VERILOG.TO_LOGIC(NET_VALUE)"],
       [from |-> "VERILOG_NET_ARRAY", to |-> "VERILOG_LOGIC_ARRAY",
        func |-> "NVC.VERILOG.TO_LOGIC(NET_ARRAY)"],
       [from |-> "VERILOG_WIRE_ARRAY", to |-> "VERILOG_LOGIC_ARRAY",
        func |-> "NVC.VERILOG.TO_LOGIC(WIRE_ARRAY)"],
       [from |-> "VERILOG_LOGIC", to |-> "VERILOG_NET_VALUE",
        func |-> "NVC.VERILOG.TO_NET(LOGIC)NET_VALUE"],
       [from |-> "VERILOG_LOGIC_ARRAY", to |-> "VERILOG_NET_ARRAY",
        func |-> "NVC.VERILOG.TO_NET(LOGIC_ARRAY)NET_ARRAY"],
       [from |-> "VERILOG_LOGIC_ARRAY", to |-> "VERILOG_WIRE_ARRAY",
        func |-> "NVC.VERILOG.TO_NET(LOGIC_ARRAY)WIRE_ARRAY"] >>

\* the loop over a table: the function of the first row matching both
\* types, NULL if no row matches
RECURSIVE table_lookup(_, _, _, _)
table_lookup(table, i, from, to) ==
    IF i > Len(table) THEN NULL
    ELSE IF type_eq(table[i].from, from) /\ type_eq(table[i].to, to)
    THEN table[i].func
    ELSE table_lookup(table, i + 1, from, to)

elab_to_vhdl(from, to) == table_lookup(ToVhdlTable, 1, from, to)

elab_to_verilog(from, to) == table_lookup(ToVerilogTable, 1, from, to)

elab_verilog_conversion(from, to) == table_lookup(VerilogTable, 1, from, to)

make_ref(decl) == [kind |-> "T_REF", ident |-> decl.ident, ref |-> decl]

\* a T_CONV_FUNC that applies func to value
conv_func(func, value) ==
    [kind |-> "T_CONV_FUNC", ident |-> func, value |-> value]

\* add_param(bind, value, kind, name): a positional parameter takes the next
\* position
add_param(params, value, kind, name) ==
    Append(params,
           [kind |-> "T_PARAM", subkind |-> kind,
            pos |-> IF kind = "P_POS" THEN Len(params) ELSE 0,
            name |-> name, value |-> value])

\* the parameter of a connection that flows into the module
add_input_positional(st, value, port) ==
    [st EXCEPT !.params = add_param(@, value, "P_POS", NULL)]
add_input(st, value, port) ==
    [st EXCEPT !.params =
        IF st.have_named
        THEN add_param(@, value, "P_NAMED", make_ref(port))
        ELSE add_param(@, value, "P_POS", NULL)]

\* the parameter of a connection that flows out of the module
add_output(st, decl, conv) ==
    [st EXCEPT !.params = add_param(@, make_ref(decl), "P_NAMED", conv),
               !.have_named = TRUE]

\* error_at and return NULL
bind_error(st, msg) ==
    [st EXCEPT !.errors = Append(@, msg), !.result = "NULL", !.state = "done"]

\* the index of the first port of comp called name, 0 if there is none
RECURSIVE find_cport(_, _, _)
find_cport(comp, j, name) ==
    IF j > Len(comp) THEN 0
    ELSE IF comp[j].ident = name THEN j
    ELSE find_cport(comp, j + 1, name)

\* the coercion a port of the component needs: a signal driving an input of
\* the module is converted to Verilog, an output of the module to VHDL
mixed_coercion_reversed(subkind, btype, vtype) ==
    IF subkind = "V_PORT_INPUT"
    THEN [table |-> "elab_to_vhdl", from |-> vtype, to |-> btype,
          func |-> elab_to_vhdl(vtype, btype)]
    ELSE [table |-> "elab_to_verilog", from |-> btype, to |-> vtype,
          func |-> elab_to_verilog(btype, vtype)]
mixed_coercion(subkind, btype, vtype) ==
    IF subkind = "V_PORT_INPUT"
    THEN [table |-> "elab_to_verilog", from |-> btype, to |-> vtype,
          func |-> elab_to_verilog(btype, vtype)]
    ELSE [table |-> "elab_to_vhdl", from |-> vtype, to |-> btype,
          func |-> elab_to_vhdl(vtype, btype)]

\* the lookup is recorded with the port it was made for
looked_up(st, mport, c) ==
    [st EXCEPT !.lookups = Append(@, [port |-> mport.ident,
                                      subkind |-> mport.subkind,
                                      table |-> c.table, from |-> c.from,
                                      to |-> c.to, func |-> c.func])]

\* the connection of mport to cport with the coercion c
mixed_connect(st, mport, cport, c) ==
    IF c.func = NULL
    THEN bind_error(st, IF mport.subkind = "V_PORT_INPUT"
                        THEN "cannot connect VHDL signal to Verilog input port"
                        ELSE "cannot connect VHDL signal to Verilog output port")
    ELSE IF mport.subkind = "V_PORT_INPUT"
    THEN add_input(st, conv_func(c.func, make_ref(cport)), mport)
    ELSE add_output(st, cport, conv_func(c.func, make_ref(mport)))

\* one iteration of the loop over the ports of the module; j is the index
\* of the port of the component with the same name
mixed_port(st, mport, j) ==
    IF j = 0
    THEN bind_error(st, "missing matching VHDL port declaration for Verilog port")
    ELSE mixed_connect(
            looked_up([st EXCEPT !.have = @ \cup {j}, !.i = @ + 1], mport,
                      mixed_coercion(mport.subkind, st.actuals[j].type,
                                     mport.type)),
            mport, st.actuals[j],
            mixed_coercion(mport.subkind, st.actuals[j].type, mport.type))

\* the ports of the component that no port of the module has taken
RECURSIVE not_found(_, _, _)
not_found(st, i, errors) ==
    IF i > Len(st.actuals) THEN errors
    ELSE not_found(st, i + 1,
                   IF i \in st.have THEN errors
                   ELSE Append(errors, "port not found in Verilog module"))

\* after the loop of elab_mixed_binding: the binding is returned
mixed_return(st) ==
    [st EXCEPT !.errors = not_found(st, 1, @), !.result = "bound",
               !.state = "done"]

\* the port-count check of elab_verilog_binding for the connections at hand
verilog_check(st) ==
    IF Len(st.formals) # Len(st.actuals)
    THEN bind_error(st, "expected port connections for module")
    ELSE [st EXCEPT !.state = "loop"]

\* assert(func != NULL): a build with assertions aborts, one without them
\* reads the identifier of a null tree
assert_func(st) ==
    [st EXCEPT !.state = "done",
               !.result = IF st.build = "checked" THEN "aborted" ELSE "crashed"]

\* one iteration of the loop of elab_verilog_binding without the assertion
\* on the function found
verilog_port_unchecked(st, decl, port, func) ==
    IF type_eq(decl.type, port.type)
    THEN add_input(st, make_ref(decl), port)
    ELSE IF port.subkind = "PORT_IN"
    THEN add_input(st, conv_func(func, make_ref(decl)), port)
    ELSE add_output(st, decl, conv_func(func, make_ref(port)))

\* the function a connection whose types differ is converted with
verilog_coercion(decl, port) ==
    IF port.subkind = "PORT_IN"
    THEN elab_verilog_conversion(decl.type, port.type)
    ELSE elab_verilog_conversion(port.type, decl.type)

\* one iteration of the loop of elab_verilog_binding
verilog_port(st, decl, port) ==
    IF ~type_eq(decl.type, port.type) /\ verilog_coercion(decl, port) = NULL
    THEN assert_func([st EXCEPT !.i = @ + 1])
    ELSE verilog_port_unchecked([st EXCEPT !.i = @ + 1], decl, port,
                                verilog_coercion(decl, port))

verilog_return(st) == [st EXCEPT !.result = "bound", !.state = "done"]

StartVbind(fn, formals, actuals, build) ==
    [fn |-> fn, state |-> IF fn = "elab_verilog_binding" THEN "check" ELSE "loop",
     formals |-> formals, actuals |-> actuals, build |-> build,
     i |-> 1, have_named |-> FALSE, have |-> {}, params |-> <<>>,
     result |-> "none", errors |-> <<>>, lookups |-> <<>>]

\* the loop of elab_mixed_binding and what follows it
RECURSIVE mixed_ports(_)
mixed_ports(st) ==
    IF st.state = "done" THEN st
    ELSE IF st.i > Len(st.formals) THEN mixed_return(st)
    ELSE mixed_ports(mixed_port(st, st.formals[st.i],
                                find_cport(st.actuals, 1,
                                           st.formals[st.i].ident)))

\* elab_mixed_binding(comp, mc): the errors it reports, the parameters of
\* the binding and whether it returns the binding or NULL
elab_mixed_binding(comp, mod) ==
    mixed_ports(StartVbind("elab_mixed_binding", mod.ports, comp.ports,
                           "checked"))

-----------------------------------------------------------------------------
(* Default binding (LRM 93 section 5.2.2) *)

\* the first declaration of decls whose name equals id ignoring case, 0 if none
MatchIndex(decls, id) ==
    IF \E j \in DOMAIN decls : ident_casecmp(id, decls[j].ident)
    THEN CHOOSE j \in DOMAIN decls :
            /\ ident_casecmp(id, decls[j].ident)
            /\ \A k \in 1..(j - 1) : ~ident_casecmp(id, decls[k].ident)
    ELSE 0

Binding(arch, genmaps, params) ==
    [kind |-> "T_BINDING", ident |-> arch, ref |-> arch, class |-> "C_ENTITY",
     genmaps |-> genmaps, params |-> params]

NoBinding == [kind |-> "NULL"]

\* the generic loop of elab_default_binding leaving out the map of an
\* entity generic that has no counterpart in the component
bind_generic_skips_default(eg, comp) ==
    LET j == MatchIndex(comp.generics, eg.ident)
    IN  IF j # 0
        THEN LET match == comp.generics[j]
             IN  IF eg.class # match.class
                 THEN [error |-> "generic class incompatible", add |-> FALSE]
                 ELSE IF eg.class = "C_PACKAGE"
                 THEN [error |-> NULL, add |-> TRUE, value |-> Ref(match.ident)]
                 ELSE IF ~type_eq(match.type, eg.type)
                 THEN [error |-> "generic type incompatible", add |-> FALSE]
                 ELSE [error |-> NULL, add |-> TRUE, value |-> Ref(match.ident)]
        ELSE IF eg.has_value
        THEN [error |-> NULL, add |-> FALSE]
        ELSE [error |-> "generic without default has no counterpart",
              add |-> FALSE]

\* one iteration of the generic loop: the value matched to entity generic eg,
\* or the error that makes the binding fail
bind_generic(eg, comp) ==
    LET j == MatchIndex(comp.generics, eg.ident)
    IN  IF j # 0
        THEN LET match == comp.generics[j]
             IN  IF eg.class # match.class
                 THEN [error |-> "generic class incompatible", add |-> FALSE]
                 ELSE IF eg.class = "C_PACKAGE"
                 THEN [error |-> NULL, add |-> TRUE, value |-> Ref(match.ident)]
                 ELSE IF ~type_eq(match.type, eg.type)
                 THEN [error |-> "generic type incompatible", add |-> FALSE]
                 ELSE [error |-> NULL, add |-> TRUE, value |-> Ref(match.ident)]
        ELSE IF eg.has_value
        THEN [error |-> NULL, add |-> TRUE,
              value |-> IF is_literal(eg.value) THEN eg.value ELSE Open]
        ELSE [error |-> "generic without default has no counterpart",
              add |-> FALSE]

\* one iteration of the port loop
bind_port(ep, comp) ==
    LET j == MatchIndex(comp.ports, ep.ident)
    IN  IF j # 0
        THEN IF ~type_eq(comp.ports[j].type, ep.type)
             THEN [error |-> "port type incompatible", add |-> FALSE]
             ELSE [error |-> NULL, add |-> TRUE,
                   value |-> Ref(comp.ports[j].ident)]
        ELSE LET open_ok == \/ ep.has_value
                            \/ (ep.subkind = "PORT_OUT" /\ ~ep.unconstrained)
             IN  IF open_ok
                 THEN [error |-> NULL, add |-> TRUE, value |-> Open]
                 ELSE [error |-> "port without default has no counterpart",
                       add |-> FALSE]

\* tree_add_genmap(bind, map) for the value r of the i-th entity generic
add_bound_generic(acc, i, r) ==
    [acc EXCEPT !.error = r.error,
                !.genmaps = IF r.add THEN Append(@, PosParam(i - 1, r.value))
                            ELSE @]

\* add_param(bind, value, P_POS, NULL): the position is the number of
\* params the binding has so far
add_bound_port(acc, r) ==
    [acc EXCEPT !.error = r.error,
                !.params = IF r.add THEN Append(@, PosParam(Len(@), r.value))
                           ELSE @]

\* both loops: acc = [error, genmaps, params]; an error returns at once
RECURSIVE BindGenerics(_, _, _, _)
BindGenerics(entity, comp, i, acc) ==
    IF i > Len(entity.generics) \/ acc.error # NULL THEN acc
    ELSE BindGenerics(entity, comp, i + 1,
            add_bound_generic(acc, i, bind_generic(entity.generics[i], comp)))

RECURSIVE BindPorts(_, _, _, _)
BindPorts(entity, comp, i, acc) ==
    IF i > Len(entity.ports) \/ acc.error # NULL THEN acc
    ELSE BindPorts(entity, comp, i + 1,
            add_bound_port(acc, bind_port(entity.ports[i], comp)))

\* lib_get_generic on the working library
lib_get(d, name) ==
    IF \E i \in DOMAIN d.index : d.index[i].name = name
    THEN Obj(d, name)
    ELSE [kind |-> "NULL"]

\* the name of the entity a component denotes: library '.' simple name, the
\* work library when the component name carries none
entity_name(comp) ==
    IF ident_until(comp.ident, ".") = comp.ident
    THEN ident_prefix("WORK", comp.ident, ".")
    ELSE ident_prefix(ident_until(comp.ident, "."),
                      ident_rfrom(comp.ident, "."), ".")

\* the end of elab_default_binding: gp is what the two loops produced
binding_result(m, comp, arch, gp) ==
    IF gp.error # NULL
    THEN [m |-> error_at(m, gp.error, comp.ident), bind |-> NoBinding]
    ELSE [m |-> m, bind |-> Binding(arch, gp.genmaps, gp.params)]

\* the binding of comp to entity once the architecture is picked
bind_entity(m, comp, entity, arch) ==
    IF arch.chosen = NULL
    THEN [m |-> fatal(m, "no suitable architecture", entity.ident),
          bind |-> NoBinding]
    ELSE binding_result(m, comp, arch.chosen,
            BindPorts(entity, comp, 1,
               BindGenerics(entity, comp, 1,
                  [error |-> NULL, genmaps |-> <<>>, params |-> <<>>])))

\* the entity looked up; no other library is loaded, so lib_for_all finds
\* nothing where the work library has nothing
find_entity(m, d, comp, entity) ==
    IF entity.kind = "NULL"
    THEN [m |-> warn_at(m, "cannot find entity for component", comp.ident),
          bind |-> NoBinding]
    ELSE bind_entity(m, comp, entity, elab_pick_arch(d.index, entity.ident))

\* the errors of elab_mixed_binding enter the diagnostics
RECURSIVE report_errors(_, _, _, _)
report_errors(m, msgs, i, arg) ==
    IF i > Len(msgs) THEN m
    ELSE report_errors(error_at(m, msgs[i], arg), msgs, i + 1, arg)

\* the component names a Verilog module: return elab_mixed_binding(comp, mc)
mixed_bound(m, comp, mod, st) ==
    [m |-> report_errors(m, st.errors, 1, comp.ident),
     bind |-> IF st.result = "bound"
              THEN Binding(mod.ident, <<>>, st.params)
              ELSE NoBinding]

\* the object looked up is a Verilog module or an entity
bind_object(m, d, comp, obj) ==
    IF obj.kind = "V_MODULE"
    THEN mixed_bound(elab_cached_module(m, obj), comp, obj,
                     elab_mixed_binding(comp, obj))
    ELSE find_entity(m, d, comp, obj)

\* elab_default_binding(inst, ctx): [m, bind]
elab_default_binding(m, d, inst) ==
    bind_object(m, d, Obj(d, inst.ref),
                lib_get(d, entity_name(Obj(d, inst.ref))))

-----------------------------------------------------------------------------
(* Top-level binding *)

\* the map of top-level generic g: fo is what the override lookup returned
top_generic(fo, g, i, acc) ==
    IF fo.m.pc = "fatal" THEN [m |-> fo.m, genmaps |-> acc]
    ELSE IF fo.value.kind # "NULL"
    THEN [m |-> fo.m, genmaps |-> Append(acc, PosParam(i - 1, fo.value))]
    ELSE IF g.has_value
    THEN [m |-> fo.m, genmaps |-> Append(acc, PosParam(i - 1, g.value))]
    ELSE [m |-> error_at(fo.m, "generic of top-level entity must have default value",
                         g.ident),
          genmaps |-> acc]

\* the loop over the generics of the top-level entity: r = [m, genmaps]
RECURSIVE TopGenerics(_, _, _)
TopGenerics(r, generics, i) ==
    IF i > Len(generics) \/ r.m.pc = "fatal" THEN r
    ELSE IF generics[i].class # "C_CONSTANT"
    THEN TopGenerics(
            [r EXCEPT !.m = error_at(@, "only constant top-level generics are supported",
                                     generics[i].ident)],
            generics, i + 1)
    ELSE TopGenerics(
            top_generic(elab_find_generic_override(r.m, generics[i], <<NULL>>),
                        generics[i], i, r.genmaps),
            generics, i + 1)

\* the map of top-level port p: left open
top_port(r, p, i) ==
    [m |-> IF ~p.has_value /\ p.unconstrained
           THEN error_at(r.m, "unconnected top-level port cannot have unconstrained type",
                         p.ident)
           ELSE r.m,
     params |-> Append(r.params,
                       PosParam(i - 1, IF p.has_value THEN p.value ELSE Open))]

\* the loop over the ports of the top-level entity: r = [m, params]
RECURSIVE TopPorts(_, _, _)
TopPorts(r, ports, i) ==
    IF i > Len(ports) THEN r
    ELSE TopPorts(top_port(r, ports[i], i), ports, i + 1)

\* the binding built from the two loops
top_binding(arch, g, p) ==
    [m |-> p.m, bind |-> Binding(arch, g.genmaps, p.params)]

top_level_ports(arch, entity, g) ==
    top_binding(arch, g, TopPorts([m |-> g.m, params |-> <<>>], entity.ports, 1))

\* elab_top_level_binding(arch, ctx): [m, bind]
elab_top_level_binding(m, d, arch) ==
    top_level_ports(arch, Obj(d, Obj(d, arch).ident2),
       TopGenerics([m |-> m, genmaps |-> <<>>],
                   Obj(d, Obj(d, arch).ident2).generics, 1))

-----------------------------------------------------------------------------
(* Elaboration contexts *)

\* elab_ctx_t of the root driver
RootCtx ==
    [kind |-> "root", out |-> 1, inst |-> NULL, inst_name |-> NULL,
     dotted |-> "WORK", depth |-> 0, lowered |-> 0, config |-> NoConfig,
     todo |-> <<>>]

\* a designated initialiser followed by elab_inherit_context(&new_ctx, parent)
elab_inherit_context(kind, inst_name, dotted, inst, out, parent) ==
    [kind      |-> kind,
     out       |-> out,
     inst      |-> IF inst # NULL THEN inst ELSE parent.inst,
     inst_name |-> IF inst_name # NULL THEN inst_name ELSE parent.inst_name,
     dotted    |-> IF dotted # NULL THEN dotted ELSE parent.dotted,
     depth     |-> parent.depth + 1,
     lowered   |-> 0,
     config    |-> NoConfig,
     todo      |-> <<>>]

\* elab_block_config(block, ctx): the block configuration that the
\* configuration of ctx holds for the block called label
elab_block_config(label, ctx) ==
    IF ctx.config.kind = "NULL" THEN NoConfig
    ELSE IF \E i \in DOMAIN ctx.config.decls :
               /\ ctx.config.decls[i].kind = "T_BLOCK_CONFIG"
               /\ ctx.config.decls[i].ident = label
    THEN ctx.config.decls[CHOOSE i \in DOMAIN ctx.config.decls :
            /\ ctx.config.decls[i].kind = "T_BLOCK_CONFIG"
            /\ ctx.config.decls[i].ident = label
            /\ \A j \in 1..(i - 1) :
                  ~(/\ ctx.config.decls[j].kind = "T_BLOCK_CONFIG"
                    /\ ctx.config.decls[j].ident = label)]
    ELSE NoConfig

\* the inst fields from ctx outwards, as elab_find_generic_override walks them
StackInsts(stk, k) ==
    [j \in 1..k |-> stk[k + 1 - j].inst]

InstChain(m, ctx) == <<ctx.inst>> \o StackInsts(m.stack, Len(m.stack))

\* elab_lower: lower_instance under the parent's unit; [m, ctx]
elab_lower(m, ctx) ==
    LET u == Len(m.units) + 1
    IN  [m   |-> use([m EXCEPT !.units = Append(@,
                        [out |-> ctx.out, parent |-> Top(m).lowered,
                         errors |-> error_count(m),
                         finalised |-> 0, order |-> 0])],
                     "elab_lower", Top(m), ctx.out),
         ctx |-> [ctx EXCEPT !.lowered = u]]

Push(m, ctx) == [m EXCEPT !.stack = Append(@, ctx)]

\* drops the statement the current elab_stmts loop has just dispatched
Advance(m) == [m EXCEPT !.stack[Len(m.stack)].todo = Tail(@)]

\* the units the registry has finalised so far
Finalised(units) == {u \in DOMAIN units : units[u].finalised > 0}

\* unit_registry_finalise(ur, ctx->lowered): counted, and numbered in the
\* order of the calls
unit_registry_finalise(m, u) ==
    [m EXCEPT !.units[u].finalised = @ + 1,
              !.units[u].order = Cardinality(Finalised(m.units)) + 1]

\* elab_pop_scope that leaves the lowered unit as it is
elab_pop_scope_without_finalise(m) ==
    [m EXCEPT !.stack = SubSeq(@, 1, Len(@) - 1)]

\* elab_pop_scope at the end of the handler that owns the top context
elab_pop_scope(m) ==
    [(IF Top(m).lowered # 0 THEN unit_registry_finalise(m, Top(m).lowered)
      ELSE m)
     EXCEPT !.stack = SubSeq(@, 1, Len(@) - 1)]

-----------------------------------------------------------------------------
(* Architectures, components, blocks *)

PathOf(arch) ==
    simple_name(arch.ident2) \o "(" \o simple_name(arch.ident) \o ")"

\* elab_stmts(t, ctx) entered after elab_lower returned lo = [m, ctx]: the
\* context goes on the stack with the statements its loop has to visit
elab_stmts(lo, todo) ==
    Push(use(lo.m, "elab_stmts", lo.ctx, lo.ctx.out),
         [lo.ctx EXCEPT !.todo = todo])

\* if (error_count() == 0) { elab_lower; elab_stmts }: the context stays on
\* the stack until the handler pops its scope; nothing follows a fatal error
stmts_despite_errors(m, new, todo) ==
    IF m.pc = "fatal" THEN m
    ELSE IF error_count(m) = 0 THEN elab_stmts(elab_lower(m, new), todo)
    ELSE elab_stmts([m |-> m, ctx |-> new], todo)
stmts_if_no_errors(m, new, todo) ==
    IF m.pc = "fatal" THEN m
    ELSE IF error_count(m) = 0 THEN elab_stmts(elab_lower(m, new), todo)
    ELSE Push(m, new)

\* label of the block elab_architecture creates
arch_label(bind, arch) ==
    IF bind.kind = "T_INSTANCE" THEN bind.ident
    ELSE ident_rfrom(arch.ident2, ".")

\* the instance path elab_architecture gives the new context, with the
\* label@entity(arch) of an instance not prefixed by the parent's path
arch_path_drops_parent(bind, arch, ctx) ==
    IF bind.kind = "T_INSTANCE"
    THEN hpathf(NULL, ":", bind.ident \o "@" \o PathOf(arch))
    ELSE NULL

\* T_BINDING: no path of its own (the parent's is inherited); T_INSTANCE:
\* label@entity(arch) is added to the parent's
arch_path(bind, arch, ctx) ==
    IF bind.kind = "T_INSTANCE"
    THEN hpathf(ctx.inst_name, ":", bind.ident \o "@" \o PathOf(arch))
    ELSE NULL

\* new_ctx of elab_architecture; new_ctx.config is the copy of config
arch_ctx(m, bind, arch, config) ==
    [elab_inherit_context(
        IF bind.kind = "T_INSTANCE" THEN "arch_instance" ELSE "arch_binding",
        arch_path(bind, arch, Top(m)),
        ident_prefix(Top(m).dotted, arch_label(bind, arch), "."),
        IF bind.kind = "T_INSTANCE" THEN bind.ident ELSE NULL,
        Len(m.blocks) + 1, Top(m))
     EXCEPT !.config = config]

\* a phase of a handler begins for the output block out; nothing follows a
\* fatal error
phase(m, name, out) ==
    IF m.pc = "fatal" THEN m
    ELSE [m EXCEPT !.phases =
            Append(@, [phase |-> name, out |-> out,
                       generics |-> Len(m.blocks[out].generics),
                       genmaps |-> Len(m.blocks[out].genmaps)])]

\* elab_instance_fixup(unit, ctx): returns at once below VHDL-2008; its
\* opening assertion compares the genmaps of ctx->out with its generics and
\* aborts the process in a build that checks assertions; the call is logged
\* as phase name of the calling handler
elab_instance_fixup(m, d, out, name) ==
    IF m.pc = "fatal" \/ d.standard # "STD_08" THEN phase(m, name, out)
    ELSE IF /\ Len(m.blocks[out].genmaps) # Len(m.blocks[out].generics)
            /\ d.asserts = "checked"
    THEN fatal(phase(m, name, out),
               "assertion failed in elab_instance_fixup", NULL)
    ELSE phase(m, name, out)

\* elab_architecture from tree_new(T_BLOCK) to elab_generics
arch_generics(m, entity, arch, bind, new) ==
    elab_generics(
        phase(phase(phase(elab_push_scope(
                              add_block(m, arch_label(bind, arch), Top(m).out),
                              "T_ARCH", new),
                          "entity context", new.out),
                    "arch context", new.out),
              "generics", new.out),
        entity.generics, bind, new, InstChain(m, new))

\* elab_instance_fixup, simplify_global, elab_ports, elab_decls(entity)
arch_ports(m, d, entity, bind, new) ==
    phase(elab_ports(phase(phase(elab_instance_fixup(m, d, new.out, "fixup"),
                                 "simplify", new.out),
                           "ports", new.out),
                     entity.ports, bind, new.out),
          "entity decls", new.out)

\* if (error_count() == 0) elab_decls(arch_copy, &new_ctx)
arch_decls(m, new) ==
    IF m.pc # "fatal" /\ error_count(m) = 0
    THEN phase(m, "arch decls", new.out)
    ELSE m

\* the statements of the architecture elaborated before those of the entity
arch_stmts_before_entity(m, new, estmts, astmts) ==
    IF m.pc = "fatal" THEN m
    ELSE IF error_count(m) = 0
    THEN elab_stmts(elab_lower(phase(phase(m, "drivers", new.out),
                                     "lower", new.out),
                               new),
                    astmts \o estmts)
    ELSE Push(m, new)

\* if (error_count() == 0) { find_drivers; elab_lower; elab_stmts(entity);
\* elab_stmts(arch_copy) }: the context stays on the stack with the
\* statements of the entity and then those of the architecture to visit
arch_stmts(m, new, estmts, astmts) ==
    IF m.pc = "fatal" THEN m
    ELSE IF error_count(m) = 0
    THEN elab_stmts(elab_lower(phase(phase(m, "drivers", new.out),
                                     "lower", new.out),
                               new),
                    estmts \o astmts)
    ELSE Push(m, new)

\* elab_architecture from tree_new(T_BLOCK) to its elab_stmts calls
arch_scope(m, d, entity, arch, bind, new) ==
    arch_stmts(
        arch_decls(
            arch_ports(arch_generics(m, entity, arch, bind, new),
                       d, entity, bind, new),
            new),
        new, entity.stmts, arch.stmts)

\* elab_architecture(bind, arch, config, ctx) up to its elab_stmts calls
elab_architecture(m, d, bind, archname, config) ==
    arch_scope(m, d, Obj(d, Obj(d, archname).ident2), Obj(d, archname), bind,
               arch_ctx(m, bind, Obj(d, archname), config))

\* whether the specification d replaces the one chosen so far: one that
\* names the label or all does, one without a label only if none is chosen
spec_applies_unlabelled_always(d, inst, spec) ==
    IF d.has_ident
    THEN d.ident = inst.ident \/ d.ident = "all"
    ELSE TRUE
spec_applies(d, inst, spec) ==
    IF d.has_ident
    THEN d.ident = inst.ident \/ d.ident = "all"
    ELSE spec.kind = "NULL"

\* the loop of elab_find_spec over the declarations of the configuration
RECURSIVE find_spec_from(_, _, _, _)
find_spec_from(decls, i, inst, spec) ==
    IF i > Len(decls) THEN spec
    ELSE IF decls[i].kind # "T_SPEC" \/ decls[i].ident2 # inst.ref
    THEN find_spec_from(decls, i + 1, inst, spec)
    ELSE IF spec_applies(decls[i], inst, spec)
    THEN find_spec_from(decls, i + 1, inst, decls[i])
    ELSE find_spec_from(decls, i + 1, inst, spec)

\* elab_find_spec(inst, ctx): the specification that applies to inst
elab_find_spec(inst, ctx) ==
    IF inst.spec.kind # "NULL" THEN inst.spec
    ELSE IF ctx.config.kind = "NULL" THEN NoSpec
    ELSE find_spec_from(ctx.config.decls, 1, inst, NoSpec)

\* what elab_component has derived once its first statement is over
Bound(m, bind, arch, config) ==
    [m |-> m, bind |-> bind, arch |-> arch, config |-> config]

\* the switch on the kind of the unit a binding indication refers to
spec_unit(m, d, inst, bind, unit) ==
    CASE unit.kind = "T_ENTITY" ->
            IF elab_pick_arch(d.index, unit.ident).chosen = NULL
            THEN Bound(fatal(m, "no suitable architecture", unit.ident),
                       bind, NULL, NoConfig)
            ELSE Bound(m, bind, elab_pick_arch(d.index, unit.ident).chosen,
                       NoConfig)
      [] unit.kind = "T_CONFIGURATION" ->
            Bound(m, bind, unit.decls[1].ref, unit.decls[1])
      [] unit.kind = "T_ARCH" ->
            Bound(m, bind, unit.ident, NoConfig)
      [] OTHER ->
            Bound(fatal(m, "this form of binding indication is not supported",
                        inst.ident),
                  bind, NULL, NoConfig)

\* bind, arch and config taken from the binding indication of spec
spec_binding(m, d, inst, spec) ==
    IF Len(spec.decls) = 0
    THEN spec_unit(m, d, inst, spec.value, Obj(d, spec.value.ref))
    ELSE Bound(m, spec.value, spec.decls[1].ref, spec.decls[1])

\* bind = elab_default_binding(inst, ctx); arch = tree_ref(bind)
default_bound(db) ==
    Bound(db.m, db.bind, IF db.bind.kind # "NULL" THEN db.bind.ref ELSE NULL,
          NoConfig)

\* the entry of the history for this call: which specification applied and
\* whether elab_default_binding was called
log_component(m, inst, spec) ==
    [m EXCEPT !.complog =
        Append(@, [inst |-> inst.ident, comp |-> inst.ref,
                   out |-> Len(m.blocks) + 1, spec |-> spec,
                   by_default |-> spec.kind = "NULL",
                   bind |-> NoBinding, arch |-> NULL, config |-> NoConfig,
                   clones |-> <<>>])]

\* the first statement of elab_component: arch, config and bind
component_binding(m, d, inst, spec) ==
    IF spec.kind # "NULL" /\ spec.has_value
    THEN spec_binding(log_component(m, inst, spec), d, inst, spec)
    ELSE IF spec.kind = "NULL"
    THEN default_bound(elab_default_binding(log_component(m, inst, spec),
                                            d, inst))
    ELSE Bound(log_component(m, inst, spec), NoBinding, NULL, NoConfig)

\* new_instance(roots, bind ? 2 : 1, ...): the component, and the binding
\* when there is one, are replaced by copies; the call is logged
new_instance(cb) ==
    [cb EXCEPT !.m.complog[Len(cb.m.complog)].clones =
        Append(@, IF cb.bind.kind # "NULL" THEN <<"comp", "bind">>
                  ELSE <<"comp">>)]

\* the loop over the generics of the component without its break
RECURSIVE unique_instance_without_break(_, _, _)
unique_instance_without_break(cb, comp, i) ==
    IF i > Len(comp.generics) THEN cb
    ELSE IF comp.generics[i].class # "C_CONSTANT"
    THEN unique_instance_without_break(new_instance(cb), comp, i + 1)
    ELSE unique_instance_without_break(cb, comp, i + 1)

\* the loop over the generics of the component: a unique instance is made at
\* the first generic that is not a constant, and the loop is left
RECURSIVE unique_instance(_, _, _)
unique_instance(cb, comp, i) ==
    IF i > Len(comp.generics) THEN cb
    ELSE IF comp.generics[i].class # "C_CONSTANT"
    THEN new_instance(cb)
    ELSE unique_instance(cb, comp, i + 1)

\* the path of a component instance: the label, and @entity(arch) when bound
component_path(ctx, d, inst, arch) ==
    IF arch # NULL /\ Obj(d, arch).kind # "V_MODULE"
    THEN hpathf(hpathf(ctx.inst_name, ":", inst.ident), "@",
                PathOf(Obj(d, arch)))
    ELSE hpathf(ctx.inst_name, ":", inst.ident)

\* new_ctx of elab_component
component_ctx(m, d, inst, arch) ==
    elab_inherit_context("component",
        component_path(Top(m), d, inst, arch),
        ident_prefix(Top(m).dotted, inst.ident, "."),
        inst.ident, Len(m.blocks) + 1, Top(m))

\* what is left for the new context to do: elab_architecture of the bound
\* architecture, or nothing when the component is unbound
component_todo(m, d, cb) ==
    IF cb.arch = NULL THEN <<>>
    ELSE IF Obj(d, cb.arch).kind = "V_MODULE"
    THEN <<[kind |-> "BOUND_VERILOG", bind |-> cb.bind, arch |-> cb.arch]>>
    ELSE IF error_count(m) = 0
    THEN <<[kind |-> "BOUND_ARCH", bind |-> cb.bind, arch |-> cb.arch,
            config |-> cb.config]>>
    ELSE <<>>

\* if (error_count() == 0) elab_lower(b, NULL, &new_ctx): [m, ctx]
component_lower(m, new) ==
    IF error_count(m) = 0 THEN elab_lower(m, new) ELSE [m |-> m, ctx |-> new]

\* the end of elab_component: the context stays on the stack with the call
\* that is left to make; nothing follows a fatal error
component_rest(m, lo, todo) ==
    IF m.pc = "fatal" THEN m
    ELSE Push(lo.m, [lo.ctx EXCEPT !.todo = todo])

component_tail(m, d, cb, new) ==
    component_rest(m, component_lower(m, new), component_todo(m, d, cb))

\* if (bind != NULL) elab_instance_fixup(bind, &new_ctx);
\* elab_instance_fixup(comp, &new_ctx)
component_fixup(m, d, cb, new) ==
    IF cb.bind.kind # "NULL"
    THEN elab_instance_fixup(
            elab_instance_fixup(m, d, new.out, "component fixup"),
            d, new.out, "component fixup")
    ELSE elab_instance_fixup(m, d, new.out, "component fixup")

\* elab_component from tree_new(T_BLOCK) on
component_scope(m, d, comp, inst, cb, new) ==
    component_tail(
        elab_ports(
            phase(component_fixup(
                      elab_generics(
                          phase(elab_push_scope(
                                    add_block(m, inst.ident, Top(m).out),
                                    "T_COMPONENT", new),
                                "component generics", new.out),
                          comp.generics, inst, new, InstChain(m, new)),
                      d, cb, new),
                  "component ports", new.out),
            comp.ports, inst, new.out),
        d, cb, new)

\* elab_component once arch, config and bind are known
bound_component(cb, d, inst) ==
    IF cb.m.pc = "fatal" THEN cb.m
    ELSE component_scope(cb.m, d, Obj(d, inst.ref), inst, cb,
                         component_ctx(cb.m, d, inst, cb.arch))

\* the history keeps what the first statement derived
log_bound(cb) ==
    [cb EXCEPT !.m.complog[Len(cb.m.complog)].bind = cb.bind,
               !.m.complog[Len(cb.m.complog)].arch = cb.arch,
               !.m.complog[Len(cb.m.complog)].config = cb.config]

\* the first two statements of elab_component
unique_component(cb, d, inst) ==
    IF cb.m.pc = "fatal" THEN cb
    ELSE unique_instance(log_bound(cb), Obj(d, inst.ref), 1)

\* elab_component(inst, comp, ctx) up to its call of elab_architecture, which
\* is left as the one thing the new context still has to do
elab_component(m, d, inst) ==
    bound_component(
        unique_component(
            component_binding(m, d, inst, elab_find_spec(inst, Top(m))),
            d, inst),
        d, inst)

\* if (ctx->depth == MAX_DEPTH)
depth_limit_reached(ctx) == ctx.depth = MAX_DEPTH

\* case T_ENTITY of elab_instance: arch is what elab_pick_arch returned
instance_of_entity(m, d, t, arch) ==
    IF arch.chosen = NULL
    THEN fatal(m, "no suitable architecture", t.ref)
    ELSE elab_architecture(m, d, t, arch.chosen, NoConfig)

\* elab_instance(t, ctx), with what it calls up to the next elab_stmts
elab_instance_stmt(m, d, t) ==
    IF depth_limit_reached(Top(m))
    THEN error_at(Advance(m), "maximum instantiation depth reached", t.ident)
    ELSE CASE Obj(d, t.ref).kind = "T_ENTITY" ->
                instance_of_entity(Advance(m), d, t,
                                   elab_pick_arch(d.index, t.ref))
           [] Obj(d, t.ref).kind = "T_ARCH" ->
                elab_architecture(Advance(m), d, t, t.ref, NoConfig)
           [] Obj(d, t.ref).kind = "T_COMPONENT" ->
                elab_component(Advance(m), d, t)
           [] Obj(d, t.ref).kind = "T_CONFIGURATION" ->
                elab_architecture(Advance(m), d, t, Obj(d, t.ref).decls[1].ref,
                                  Obj(d, t.ref).decls[1])
           [] OTHER ->
                fatal(Advance(m), "unexpected tree kind in elab_instance",
                      t.ident)

\* new_ctx of elab_block
block_ctx(m, t) ==
    [elab_inherit_context("block",
        hpathf(Top(m).inst_name, ":", t.ident),
        ident_prefix(Top(m).dotted, t.ident, "."),
        NULL, Len(m.blocks) + 1, Top(m))
     EXCEPT !.config = elab_block_config(t.ident, Top(m))]

\* if (error_count() == base_errors) { elab_lower; elab_stmts }
block_stmts(m, new, todo, base_errors) ==
    IF m.pc = "fatal" THEN m
    ELSE IF error_count(m) = base_errors
    THEN elab_stmts(elab_lower(m, new), todo)
    ELSE Push(m, new)

\* elab_block from tree_new(T_BLOCK) on
block_scope(m, t, new) ==
    block_stmts(
        elab_ports(
            elab_generics(
                elab_push_scope(add_block(m, t.ident, Top(m).out),
                                "T_BLOCK", new),
                t.generics, t, new, InstChain(m, new)),
            t.ports, t, new.out),
        new, t.stmts, error_count(m))

\* elab_block(t, ctx) up to its elab_stmts call
elab_block_stmt(m, t) ==
    block_scope(Advance(m), t, block_ctx(m, t))

\* elab_process: the process is copied to the output block
elab_process_stmt(m, t) ==
    add_stmt(Advance(m), Top(m).out, t)

-----------------------------------------------------------------------------
(* Verilog modules *)

\* new_ctx of elab_verilog_module
verilog_ctx(m, label) ==
    elab_inherit_context("verilog_module",
        hpathf(Top(m).inst_name, ":", label),
        ident_prefix(Top(m).dotted, label, "."),
        NULL, Len(m.blocks) + 1, Top(m))

\* if (bind != NULL) elab_ports(mc->block, bind, &new_ctx)
verilog_ports(m, mod, bind, new) ==
    IF bind.kind # "NULL" THEN elab_ports(m, mod.ports, bind, new.out) ELSE m

\* elab_verilog_module from tree_new(T_BLOCK) on
verilog_scope(m, bind, label, mod, new) ==
    stmts_if_no_errors(
        verilog_ports(
            elab_push_scope(add_block(m, label, Top(m).out), "T_VERILOG", new),
            mod, bind, new),
        new, mod.stmts)

\* elab_verilog_module(bind, label, mc, ctx) up to its elab_stmts call
elab_verilog_module(m, bind, label, mod) ==
    verilog_scope(m, bind, label, mod, verilog_ctx(m, label))

\* elab_verilog_binding(inst, mc, ctx): [m, bind]; the modules of the
\* modelled library have no ports, so the loop over the ports adds nothing
elab_verilog_binding(m, inst, mod) ==
    IF Len(mod.ports) # Len(inst.params)
    THEN [m |-> error_at(m, "unexpected number of port connections", inst.ident),
          bind |-> NoBinding]
    ELSE [m |-> m, bind |-> Binding(mod.ident, <<>>, <<>>)]

\* the end of case V_MOD_INST: if (bind != NULL) elab_verilog_module(...)
bound_module_instance(vb, w, mod) ==
    IF vb.bind.kind = "NULL" THEN vb.m
    ELSE elab_verilog_module(vb.m, vb.bind, w.ident, mod)

\* case V_MOD_INST of elab_verilog_stmt, mod being what lib_get_generic found
module_instance(m, w, mod) ==
    IF mod.kind = "NULL"
    THEN error_at(m, "module not found in library", w.ident2)
    ELSE IF mod.kind # "V_MODULE"
    THEN error_at(m, "unit is not a Verilog module", mod.ident)
    ELSE IF mod.ident2 # w.ident2
    THEN error_at(m, "name of Verilog module does not match", w.ident)
    ELSE bound_module_instance(
            elab_verilog_binding(elab_cached_module(m, mod), w, mod), w, mod)

\* elab_verilog_stmt(wrap, ctx), with what it calls up to the next elab_stmts
elab_verilog_stmt(m, d, w) ==
    IF w.vkind = "V_MOD_INST"
    THEN module_instance(Advance(m), w,
                         lib_get(d, UpperStr(ident_prefix("WORK", w.ident2, "."))))
    ELSE add_stmt(Advance(m), Top(m).out, w)

-----------------------------------------------------------------------------
(* Generate statements *)

\* elab_eval_expr(t, ctx) reads the scope and the lowered unit of ctx
elab_eval_expr(m) == use(m, "elab_eval_expr", Top(m), Top(m).out)

\* elab_generate_range: [m, low, high]
elab_generate_range(m, r) ==
    IF r.static = "nonstatic"
    THEN [m |-> error_at(elab_eval_expr(m), "generate range is not static",
                         NULL),
          low |-> I64(0), high |-> I64(0)]
    ELSE [m |-> m,
          low  |-> IF r.subkind = "RANGE_TO" THEN r.left ELSE r.right,
          high |-> IF r.subkind = "RANGE_TO" THEN r.right ELSE r.left]

\* the loop of elab_for_generate is entered with the range r
for_generate_loop(r, t) ==
    [r.m EXCEPT !.stack[Len(r.m.stack)].todo =
        <<[kind |-> "FOR_ITER", stmt |-> t, i |-> r.low, high |-> r.high,
           exited |-> FALSE]>>
        \o @]

\* elab_for_generate before its loop: the range is evaluated once
elab_for_generate_stmt(m, t) ==
    for_generate_loop(elab_generate_range(Advance(m), t.range), t)

\* for (int64_t i = low; i <= high; i++)
for_continues(i, high) == I64Leq(i, high)

\* tb_cat(tb, istr(base)); tb_printf(tb, "(%"PRIi64")", i)
for_block_name(base, i) == base \o "(" \o I64ToString(i) \o ")"

\* new_ctx of one iteration of elab_for_generate
for_generate_ctx(m, t, i) ==
    [elab_inherit_context("for_generate",
        hpathf(Top(m).inst_name, ":", t.ident \o "(" \o I64ToString(i) \o ")"),
        ident_prefix(Top(m).dotted, for_block_name(t.ident, i), "."),
        NULL, Len(m.blocks) + 1, Top(m))
     EXCEPT !.config = elab_block_config(t.ident, Top(m))]

\* tree_add_generic(b, g); tree_add_genmap(b, map) for the block just added
add_genvar(m, t, i) ==
    [m EXCEPT !.blocks[Len(m.blocks)].generics = Append(@, t.genvar),
              !.blocks[Len(m.blocks)].genmaps = Append(@, PosParam(0, Lit(i)))]

\* one iteration of the loop from tree_new(T_BLOCK) on
for_generate_scope(m, t, i, new) ==
    stmts_if_no_errors(
        elab_push_scope(
            add_genvar(add_block(m, for_block_name(t.ident, i), Top(m).out),
                       t, i),
            "T_FOR_GENERATE", new),
        new, t.stmts)

\* what the build makes of the signed overflow of i++ at INT64_MAX, which is
\* undefined: the counter wraps to INT64_MIN, or the loop leaves after the
\* trip count computed on the assumption that it cannot happen
OverflowOutcomes == {"wraps", "exits"}

\* i++ of the loop
for_increment(it, outcome) ==
    IF it.i # INT64_MAX THEN [it EXCEPT !.i = I64Succ(it.i)]
    ELSE IF outcome = "wraps" THEN [it EXCEPT !.i = INT64_MIN]
    ELSE [it EXCEPT !.exited = TRUE]

\* one iteration of the loop of elab_for_generate, up to its elab_stmts call
elab_for_generate_iter(m, it, outcome) ==
    for_generate_scope(
        [m EXCEPT !.stack[Len(m.stack)].todo[1] = for_increment(it, outcome)],
        it.stmt, it.i, for_generate_ctx(m, it.stmt, it.i))

\* elab_generate_test(value, ctx): [m, test]; every call is logged
elab_generate_test(m, label, k, value) ==
    IF value.static = "nonstatic"
    THEN [m |-> error_at(elab_eval_expr(
                             [m EXCEPT !.evals = Append(@, [stmt |-> label,
                                                            cond |-> k])]),
                         "generate expression is not static", label),
          test |-> FALSE]
    ELSE [m |-> [m EXCEPT !.evals = Append(@, [stmt |-> label, cond |-> k])],
          test |-> value.val]

\* the loop of elab_if_generate without the return that ends it: the last
\* branch that applies is the one taken
RECURSIVE if_select_no_return(_, _, _, _)
if_select_no_return(m, t, k, taken) ==
    IF k > Len(t.conds) THEN [m |-> m, taken |-> taken]
    ELSE IF ~t.conds[k].has_value
    THEN if_select_no_return(m, t, k + 1, k)
    ELSE if_select_no_return(
            elab_generate_test(m, t.ident, k, t.conds[k].value).m, t, k + 1,
            IF elab_generate_test(m, t.ident, k, t.conds[k].value).test
            THEN k ELSE taken)

\* the loop of elab_if_generate: [m, taken], taken being the first branch
\* that has no condition or whose condition is true, 0 when there is none
RECURSIVE if_select(_, _, _, _)
if_select(m, t, k, taken) ==
    IF k > Len(t.conds) THEN [m |-> m, taken |-> taken]
    ELSE IF ~t.conds[k].has_value THEN [m |-> m, taken |-> k]
    ELSE IF elab_generate_test(m, t.ident, k, t.conds[k].value).test
    THEN [m |-> elab_generate_test(m, t.ident, k, t.conds[k].value).m,
          taken |-> k]
    ELSE if_select(elab_generate_test(m, t.ident, k, t.conds[k].value).m,
                   t, k + 1, taken)

\* what "%s" prints for the ident_t that elab_if_generate hands to hpathf
\* without istr(): the identifier object is read as a character string,
\* which is undefined; the outcomes are the label, other bytes, or none
RawReadings == {"label", "other", "none"}

raw_ident_text(id, reading) ==
    CASE reading = "label" -> id
      [] reading = "other" -> "?"
      [] OTHER -> ""

\* new_ctx of elab_if_generate, text being what hpathf formatted
if_generate_ctx(m, cond, text) ==
    [elab_inherit_context("if_generate",
        hpathf(Top(m).inst_name, ":", text),
        ident_prefix(Top(m).dotted, cond.ident, "."),
        NULL, Len(m.blocks), Top(m))
     EXCEPT !.config = elab_block_config(cond.ident, Top(m))]

\* the body of the taken branch, from hpathf on; m has the new block
if_generate_scope(m, cond, text) ==
    IF text = ""
    THEN fatal(m, "ident_new of an empty string", cond.ident)
    ELSE stmts_if_no_errors(
            elab_push_scope(m, "T_IF_GENERATE", if_generate_ctx(m, cond, text)),
            if_generate_ctx(m, cond, text), cond.stmts)

\* the branch sel = [m, taken] of the loop: tree_new(T_BLOCK), tree_add_stmt
if_generate_branch(sel, t, reading) ==
    IF sel.taken = 0 THEN sel.m
    ELSE if_generate_scope(
            add_block(sel.m, t.conds[sel.taken].ident, Top(sel.m).out),
            t.conds[sel.taken],
            raw_ident_text(t.conds[sel.taken].ident, reading))

\* elab_if_generate(t, ctx) up to its elab_stmts call
elab_if_generate_stmt(m, t, reading) ==
    if_generate_branch(if_select(Advance(m), t, 1, 0), t, reading)

\* the name of the block elab_case_generate creates
case_block_name(t) ==
    IF t.alts[t.chosen].ident # NULL THEN t.alts[t.chosen].ident ELSE t.ident

\* new_ctx of elab_case_generate
case_generate_ctx(m, t) ==
    elab_inherit_context("case_generate",
        hpathf(Top(m).inst_name, ":", case_block_name(t)),
        ident_prefix(Top(m).dotted, case_block_name(t), "."),
        NULL, Len(m.blocks) + 1, Top(m))

\* elab_case_generate from tree_new(T_BLOCK) on
case_generate_scope(m, t, new) ==
    stmts_if_no_errors(
        elab_push_scope(add_block(m, case_block_name(t), Top(m).out),
                        "T_CASE_GENERATE", new),
        new, t.alts[t.chosen].stmts)

\* elab_case_generate(t, ctx) up to its elab_stmts call
elab_case_generate_stmt(m, t) ==
    IF t.chosen = 0
    THEN use(Advance(m), "elab_case_generate", Top(m), Top(m).out)
    ELSE case_generate_scope(
            use(Advance(m), "elab_case_generate", Top(m), Top(m).out),
            t, case_generate_ctx(m, t))

-----------------------------------------------------------------------------
(* Root driver *)

\* the T_ELAB node and the root context of elab()
elab_root(m, top) ==
    [m EXCEPT !.blocks = <<ElabNode(ident_prefix(top.ident, "elab", "."))>>,
              !.stack = <<RootCtx>>,
              !.pc = "run"]

\* the architecture elab_vhdl_root_cb elaborates, NULL when there is none
root_arch(d, top) ==
    IF top.kind = "T_ENTITY" THEN elab_pick_arch(d.index, top.ident).chosen
    ELSE IF top.kind = "T_ARCH" THEN top.ident
    ELSE IF top.kind = "T_CONFIGURATION" THEN top.decls[1].ref
    ELSE NULL

\* the block configuration of a top-level configuration, none otherwise
root_config(top) ==
    IF top.kind = "T_CONFIGURATION" THEN top.decls[1] ELSE NoConfig

\* if (error_count() == 0) elab_architecture(bind, arch, config, ctx)
root_architecture(tb, d, pick, config) ==
    IF tb.m.pc = "fatal" THEN tb.m
    ELSE IF error_count(tb.m) = 0
    THEN elab_architecture(tb.m, d, tb.bind, pick, config)
    ELSE tb.m

\* elab_vhdl_root_cb: the root path, the top-level binding, the architecture
elab_vhdl_root_cb(m, d, top, pick) ==
    IF top.kind \notin {"T_ENTITY", "T_ARCH", "T_CONFIGURATION"}
    THEN fatal(m, "not a suitable top-level unit", d.top)
    ELSE IF pick = NULL
    THEN fatal(m, "no suitable architecture", top.ident)
    ELSE root_architecture(
            elab_top_level_binding(
                [m EXCEPT !.stack[1].inst_name =
                     hpathf(NULL, ":", ":" \o PathOf(Obj(d, pick)))],
                d, pick),
            d, pick, root_config(top))

\* elab_verilog_root_cb: the top-level module under its own name, unbound
elab_verilog_root_cb(m, mod) ==
    elab_verilog_module(elab_cached_module(m, mod), NoBinding, mod.ident2, mod)

\* elab() up to the return of the root callback's call of elab_architecture
\* or elab_verilog_module
elab_start(m, d) ==
    IF Obj(d, d.top).kind = "V_MODULE"
    THEN elab_verilog_root_cb(elab_root(m, Obj(d, d.top)), Obj(d, d.top))
    ELSE elab_vhdl_root_cb(elab_root(m, Obj(d, d.top)), d, Obj(d, d.top),
                           root_arch(d, Obj(d, d.top)))

\* the module cache is freed when the root callback has returned
free_modcache(m) == [m EXCEPT !.modcache = <<>>]

RECURSIVE WarnUnused(_, _, _)
WarnUnused(m, ov, i) ==
    IF i > Len(ov) THEN m
    ELSE WarnUnused(warn_at(m, "generic value not used", ov[i].name), ov, i + 1)

\* the end of elab() returning the tree although errors were recorded
elab_finish_ignores_errors(m) ==
    [WarnUnused(free_modcache(m), m.ov, 1)
        EXCEPT !.pc = "done", !.result = "T_ELAB"]

\* the end of elab(), after the root callback has returned
elab_finish(m) ==
    IF error_count(m) > 0
    THEN [free_modcache(m) EXCEPT !.pc = "done", !.result = "NULL"]
    ELSE [WarnUnused(free_modcache(m), m.ov, 1)
             EXCEPT !.pc = "done", !.result = "T_ELAB"]

-----------------------------------------------------------------------------
(* Designs handed to the elaborator *)

Design(top, body, top_generics, sub_generics, comp_generics) ==
    [top |-> top, body |-> body, vbody |-> <<>>, index |-> WorkIndex,
     config |-> BlockConfig(NULL, "WORK.TOP-RTL", <<>>),
     standard |-> "STD_93", asserts |-> "checked", top_stmts |-> <<>>,
     top_generics |-> top_generics, top_ports |-> <<>>,
     sub_generics |-> sub_generics,
     sub_ports |-> <<Port("CLK", "BIT", "PORT_IN", FALSE, FALSE),
                     Port("Q", "BIT", "PORT_OUT", FALSE, FALSE)>>,
     comp_generics |-> comp_generics,
     comp_ports |-> <<Port("CLK", "BIT", "PORT_IN", FALSE, FALSE)>>]

StaticCond(v) == [static |-> "folded", val |-> v]

NonStaticCond == [static |-> "nonstatic", val |-> FALSE]

CondValues == {StaticCond(TRUE), StaticCond(FALSE), NonStaticCond}

\* statement lists that do not instantiate anything
LeafBodies ==
    { <<Process("P1")>> }
    \cup { <<ForGenerate("G", "folded", I64(l), I64(r), "RANGE_TO", <<Process("P1")>>)>> :
             l \in 0..1, r \in 0..MaxIndex }
    \cup { <<ForGenerate("G", "folded", I64(1), I64(0), "RANGE_DOWNTO",
                         <<Process("P1")>>),
             Process("P2")>>,
           <<ForGenerate("G", "folded", I64(0), I64(1), "RANGE_DOWNTO",
                         <<Process("P1")>>)>>,
           <<ForGenerate("G", "folded", INT64_MAX, INT64_MAX, "RANGE_TO",
                         <<Process("P1")>>),
             Process("P2")>>,
           <<ForGenerate("G", "nonstatic", I64(0), I64(0), "RANGE_TO",
                         <<Process("P1")>>)>> }
    \cup { <<IfGenerate("G", <<Cond("G", TRUE, c1, <<Process("P1")>>),
                               Cond("G2", TRUE, c2, <<Process("P2")>>)>>)>> :
             c1 \in CondValues, c2 \in CondValues }
    \cup { <<IfGenerate("G", <<Cond("G", TRUE, c1, <<Process("P1")>>),
                               Cond("G2", TRUE, c2, <<>>),
                               Cond("G3", FALSE, StaticCond(FALSE),
                                    <<Process("P3")>>)>>),
             Process("P4")>> :
             c1 \in CondValues, c2 \in CondValues }
    \cup { <<CaseGenerate("C", k, <<Alt("A1", <<Process("P1")>>),
                                    Alt(NULL, <<>>)>>)>> : k \in 0..2 }
    \cup { <<BlockStmt("B1", <<WidthGeneric(dflt)>>, gm, <<Process("P1")>>)>> :
             dflt \in BOOLEAN, gm \in {<<>>, <<PosParam(0, Lit(4))>>} }

\* statement lists in which a statement follows one that records an error
ErrorBodies ==
    { <<Process("P0"),
        ForGenerate("G", "nonstatic", I64(0), I64(0), "RANGE_TO",
                    <<Process("P1")>>),
        next>> :
        next \in {BlockStmt("B1", <<>>, <<>>, <<Process("P2")>>),
                  Instance("U1", "WORK.SUB", <<>>),
                  Process("P2")} }
    \cup { <<Process("P0"),
             IfGenerate("G", <<Cond("G", TRUE, NonStaticCond,
                                    <<Process("P1")>>)>>),
             BlockStmt("B1", <<>>, <<>>,
                       <<BlockStmt("B2", <<>>, <<>>, <<Process("P2")>>)>>)>> }

\* statement lists that instantiate the entity SUB
SubBodies ==
    { <<Instance("U1", "WORK.SUB", gm)>> :
         gm \in {<<>>, <<PosParam(0, Lit(4))>>, <<PosParam(0, Ref("WIDTH"))>>} }
    \cup { <<Instance("U1", "WORK.SUB-TB", <<>>), Process("P1")>>,
           <<Instance("U1", "SUB", <<>>)>>,
           <<Instance("U1", "SUB", <<PosParam(0, Lit(4))>>),
             Instance("U2", "NOSUCH", <<>>)>>,
           <<BlockStmt("B1", <<>>, <<>>, <<Instance("U1", "WORK.SUB", <<>>)>>)>>,
           <<ForGenerate("G", "folded", I64(1), I64(2), "RANGE_TO",
                         <<Instance("U1", "WORK.SUB", <<>>)>>)>> }

\* generics that are not constants, and what an instance maps them to
TypeGeneric == Generic("T", "C_TYPE", "", FALSE, Open)

PackageGeneric == Generic("P", "C_PACKAGE", "", FALSE, Open)

TypeRef == [kind |-> "T_TYPE_REF", ident |-> "INTEGER"]

\* configuration specifications for the instance U1 of component SUB
SubSpecs ==
    { ConfSpec(TRUE, "U1", "SUB", TRUE, Binding(unit, <<>>, <<>>), <<>>) :
         unit \in {"WORK.SUB", "WORK.SUB-TB", "WORK.SUBCFG", "WORK.PKG"} }
    \cup { ConfSpec(TRUE, "U1", "SUB", FALSE, NoBinding, <<>>),
           ConfSpec(TRUE, "U1", "SUB", TRUE, Binding("WORK.SUB", <<>>, <<>>),
                    <<BlockConfig(NULL, "WORK.SUB-TB", <<>>)>>) }

\* statement lists whose component instance has its own specification
SpecBodies ==
    { <<SpecInstance("U1", "SUB", <<>>, sp), Process("P1")>> : sp \in SubSpecs }

\* the declarations of the block configuration of configuration CFG
ConfigDecls ==
    { <<>>,
      << ConfSpec(FALSE, NULL, "SUB", TRUE, Binding("WORK.SUB-TB", <<>>, <<>>),
                  <<>>),
         ConfSpec(TRUE, "U1", "SUB", TRUE, Binding("WORK.SUB", <<>>, <<>>),
                  <<>>),
         BlockConfig("B1", "WORK.TOP-RTL",
            <<ConfSpec(TRUE, "all", "SUB", FALSE, NoBinding, <<>>)>>) >>,
      << ConfSpec(TRUE, "U2", "SUB", TRUE, Binding("WORK.SUB", <<>>, <<>>),
                  <<>>),
         ConfSpec(FALSE, NULL, "SUB", TRUE, Binding("WORK.SUB-TB", <<>>, <<>>),
                  <<>>),
         ConfSpec(FALSE, NULL, "SUB", FALSE, NoBinding, <<>>) >>,
      << ConfSpec(TRUE, "all", "NOSUCH", FALSE, NoBinding, <<>>),
         BlockConfig("B1", "WORK.TOP-RTL",
            <<ConfSpec(TRUE, "U2", "SUB", TRUE,
                       Binding("WORK.SUBCFG", <<>>, <<>>), <<>>)>>) >> }

\* the architecture that configuration CFG configures
ConfiguredBody ==
    << Instance("U1", "SUB", <<>>),
       BlockStmt("B1", <<>>, <<>>, <<Instance("U2", "SUB", <<>>)>>) >>

\* the library without the entity SUB and its architectures
IndexWithoutSub ==
    SelectSeq(WorkIndex, LAMBDA e : ident_until(e.name, "-") # "WORK.SUB")

\* designs whose component SUB has generics cg, mapped by gm, and whose
\* instance U1 has the specification sp
GenericClassDesign(cg, gm, sp, index) ==
    [Design("WORK.TOP", <<SpecInstance("U1", "SUB", gm, sp)>>, <<>>, <<>>, cg)
        EXCEPT !.index = index, !.standard = "STD_08"]

GenericClassDesigns ==
    { GenericClassDesign(<<TypeGeneric>>, <<PosParam(0, TypeRef)>>, sp, index) :
         sp \in {NoSpec, ConfSpec(TRUE, "U1", "SUB", FALSE, NoBinding, <<>>),
                 ConfSpec(TRUE, "U1", "SUB", TRUE,
                          Binding("WORK.SUB-TB", <<>>, <<>>), <<>>)},
         index \in {WorkIndex, IndexWithoutSub} }
    \cup
    { GenericClassDesign(<<WidthGeneric(TRUE), PackageGeneric, TypeGeneric>>,
                         <<PosParam(0, Lit(4)), PosParam(1, Ref("PKG")),
                           PosParam(2, TypeRef)>>, NoSpec, WorkIndex),
      GenericClassDesign(<<WidthGeneric(TRUE), WidthGeneric(FALSE)>>,
                         <<PosParam(0, Lit(4)), PosParam(1, Lit(5))>>,
                         NoSpec, WorkIndex) }

\* designs whose top-level entity has statements of its own
EntityStmtDesigns ==
    { [Design("WORK.TOP", body, <<WidthGeneric(TRUE)>>, <<WidthGeneric(TRUE)>>,
              <<WidthGeneric(TRUE)>>)
         EXCEPT !.top_stmts = <<Process("PE"), Process("PF")>>] :
         body \in { <<Process("P1")>>,
                    <<Process("P0"),
                      BlockStmt("B1", <<>>, <<>>, <<Process("P2")>>),
                      Process("P3"),
                      ForGenerate("G", "folded", I64(1), I64(2), "RANGE_TO",
                                  <<>>),
                      Instance("U1", "WORK.SUB", <<>>),
                      Process("P4")>> } }

\* VHDL-2008 designs in which an instance leaves a generic without a value,
\* for builds that check assertions and builds that do not
FixupDesigns ==
    { [Design("WORK.TOP", <<Instance("U1", ref, <<>>)>>, <<WidthGeneric(TRUE)>>,
              <<WidthGeneric(FALSE)>>, <<WidthGeneric(FALSE)>>)
         EXCEPT !.standard = "STD_08", !.asserts = a] :
         ref \in {"WORK.SUB", "SUB"}, a \in {"checked", "unchecked"} }

\* designs whose component VSUB names the Verilog module VSUB, with no
\* port, as the module, or with a port the module does not have
MixedDesigns ==
    { [Design("WORK.TOP", body, <<WidthGeneric(TRUE)>>, <<WidthGeneric(TRUE)>>,
              <<WidthGeneric(TRUE)>>)
         EXCEPT !.comp_ports = cp] :
         body \in { <<Process("P0"), Instance("U1", "VSUB", <<>>),
                      Process("P2")>>,
                    <<Process("P0"),
                      BlockStmt("B1", <<>>, <<>>,
                                <<Instance("U1", "VSUB", <<>>)>>),
                      Instance("U2", "VSUB", <<>>)>> },
         cp \in { <<>>, <<Port("CLK", "STD_LOGIC", "PORT_IN", FALSE, FALSE)>> } }

\* statement lists through which the top-level entity instantiates itself
SelfBodies ==
    { <<Instance("U1", "WORK.TOP", <<>>)>>,
      <<Instance("U1", "WORK.TOP", <<>>), Instance("U2", "WORK.TOP-RTL", <<>>)>>,
      <<Instance("U1", "TOP", <<>>)>>,
      <<BlockStmt("B1", <<>>, <<>>, <<Instance("U1", "WORK.TOP", <<>>)>>)>>,
      <<CaseGenerate("C", 1, <<Alt("A1", <<Instance("U1", "TOP", <<>>)>>)>>)>> }

\* statement lists of the Verilog module VMOD
VerilogBodies ==
    { <<VerilogStmt("a1")>>,
      <<ModInst("u1", "vsub", <<>>), ModInst("u2", "vsub", <<>>)>>,
      <<ModInst("u1", "vsub", <<"clk">>)>>,
      <<ModInst("u1", "VSub", <<>>)>>,
      <<ModInst("u1", "sub", <<>>)>>,
      <<ModInst("u1", "nosuch", <<>>), VerilogStmt("a1")>>,
      <<ModInst("u1", "vmod", <<>>)>> }

VerilogDesign(vbody) ==
    [Design("WORK.VMOD", <<>>, <<>>, <<>>, <<>>) EXCEPT !.vbody = vbody]

Designs ==
    { VerilogDesign(vbody) : vbody \in VerilogBodies } \cup
    { Design(top, body, <<WidthGeneric(TRUE)>>, <<WidthGeneric(TRUE)>>,
             <<WidthGeneric(TRUE)>>) :
         top \in {"WORK.TOP"},
         body \in LeafBodies \cup SubBodies \cup SelfBodies \cup SpecBodies
                      \cup ErrorBodies }
    \cup { [Design("WORK.CFG", ConfiguredBody, <<WidthGeneric(TRUE)>>,
                   <<WidthGeneric(TRUE)>>, <<WidthGeneric(TRUE)>>)
              EXCEPT !.config = BlockConfig(NULL, "WORK.TOP-RTL", decls)] :
             decls \in ConfigDecls }
    \cup GenericClassDesigns
    \cup EntityStmtDesigns
    \cup FixupDesigns
    \cup MixedDesigns
    \cup { Design("WORK.TOP-RTL", body, <<WidthGeneric(dt)>>,
                  <<WidthGeneric(FALSE)>>, <<>>) :
             dt \in BOOLEAN, body \in SubBodies }

OverrideNames == {"WIDTH", "U1.WIDTH", "UNUSED"}

OverrideValues == {"16"}

-----------------------------------------------------------------------------
(* The elaboration run as a state machine *)

IdleWalk == [index |-> <<>>, pos |-> 0, params |-> SearchParams(NULL)]

IdleBinding == [state |-> "idle"]

IdleVbind == [fn |-> "none", state |-> "idle"]

NoRun == [state |-> "none"]

IdleVhpi == [state |-> "idle"]

Init ==
    /\ pc = "setup"
    /\ design \in Designs
    /\ generic_override = <<>>
    /\ stack = <<>>
    /\ blocks = <<>>
    /\ diags = <<>>
    /\ result = "none"
    /\ registered = <<>>
    /\ consumed = <<>>
    /\ genlog = <<>>
    /\ evals = <<>>
    /\ lowered_units = <<>>
    /\ modcache = <<>>
    /\ complog = <<>>
    /\ modlog = <<>>
    /\ phases = <<>>
    /\ uses = <<>>
    /\ vbind = IdleVbind
    /\ first_run = NoRun
    /\ vhpi = IdleVhpi
    /\ walk = IdleWalk
    /\ binding = IdleBinding

Running == pc = "run" /\ stack # <<>>

\* the statement the elab_stmts loop of the current context visits next
HasNext(kind) ==
    /\ Running
    /\ stack[Len(stack)].todo # <<>>
    /\ Head(stack[Len(stack)].todo).kind = kind

NextStmt == Head(stack[Len(stack)].todo)

\* the model follows a runaway recursion this far and no further
MayDescend == Len(stack) < MaxModelDepth

\* a loop whose counter has wrapped is followed for MaxWrapped iterations
MayIterate(i) ==
    ~(/\ i.neg /\ i.mag[1] = 9 /\ i.mag[2] = 223372036
      /\ i.mag[3] + MaxWrapped <= 854775808)

\* the loop of elab_set_generic over the list: an entry has the name
has_override_never(table, name) == FALSE
has_override(table, name) ==
    \E i \in DOMAIN table : table[i].name = name

\* elab_set_generic(name, value), called before elab()
elab_set_generic ==
    /\ pc = "setup"
    /\ Len(generic_override) < MaxOverrides
    /\ \E name \in OverrideNames, value \in OverrideValues :
          IF has_override(generic_override, name)
          THEN /\ pc' = "fatal"
               /\ diags' = Append(diags, Diag("fatal", "generic already has value", name))
               /\ UNCHANGED <<generic_override, registered>>
          ELSE /\ generic_override' =
                     <<[name |-> name, value |-> value]>> \o generic_override
               /\ registered' = Append(registered, name)
               /\ UNCHANGED <<pc, diags>>
    /\ UNCHANGED <<design, stack, blocks, result, consumed, genlog, evals,
                   lowered_units, modcache, walk, binding, complog, modlog,
                   phases, uses,
                   vbind, first_run, vhpi>>

Others == <<design, registered, walk, binding, vbind, first_run, vhpi>>

elab ==
    /\ pc = "setup"
    /\ Set(elab_start(Cur, design))
    /\ UNCHANGED Others

elab_instance ==
    /\ HasNext("T_INSTANCE")
    /\ MayDescend
    /\ Set(elab_instance_stmt(Cur, design, NextStmt))
    /\ UNCHANGED Others

\* elab_component calling elab_architecture for the bound architecture
elab_bound_architecture ==
    /\ HasNext("BOUND_ARCH")
    /\ MayDescend
    /\ Set(elab_architecture(Advance(Cur), design, NextStmt.bind,
                             NextStmt.arch, NextStmt.config))
    /\ UNCHANGED Others

\* elab_component calling elab_verilog_module for the bound module
elab_bound_module ==
    /\ HasNext("BOUND_VERILOG")
    /\ MayDescend
    /\ Set(elab_verilog_module(
              elab_cached_module(Advance(Cur), Obj(design, NextStmt.arch)),
              NextStmt.bind, Obj(design, NextStmt.arch).ident2,
              Obj(design, NextStmt.arch)))
    /\ UNCHANGED Others

elab_block ==
    /\ HasNext("T_BLOCK")
    /\ MayDescend
    /\ Set(elab_block_stmt(Cur, NextStmt))
    /\ UNCHANGED Others

elab_for_generate ==
    /\ HasNext("T_FOR_GENERATE")
    /\ Set(elab_for_generate_stmt(Cur, NextStmt))
    /\ UNCHANGED Others

\* the loop of elab_for_generate: one more block, or the end of the loop
elab_for_generate_loop ==
    /\ HasNext("FOR_ITER")
    /\ MayDescend
    /\ MayIterate(NextStmt.i)
    /\ IF ~NextStmt.exited /\ for_continues(NextStmt.i, NextStmt.high)
       THEN \E outcome \in OverflowOutcomes :
               Set(elab_for_generate_iter(Cur, NextStmt, outcome))
       ELSE Set(Advance(Cur))
    /\ UNCHANGED Others

elab_if_generate ==
    /\ HasNext("T_IF_GENERATE")
    /\ MayDescend
    /\ \E reading \in RawReadings :
          Set(elab_if_generate_stmt(Cur, NextStmt, reading))
    /\ UNCHANGED Others

elab_case_generate ==
    /\ HasNext("T_CASE_GENERATE")
    /\ MayDescend
    /\ Set(elab_case_generate_stmt(Cur, NextStmt))
    /\ UNCHANGED Others

elab_verilog ==
    /\ HasNext("T_VERILOG")
    /\ MayDescend
    /\ Set(elab_verilog_stmt(Cur, design, NextStmt))
    /\ UNCHANGED Others

elab_process ==
    /\ HasNext("T_PROCESS")
    /\ Set(elab_process_stmt(Cur, NextStmt))
    /\ UNCHANGED Others

\* a handler returns: its elab_stmts loop is over and it pops its scope
elab_handler_return ==
    /\ Running
    /\ Len(stack) > 1
    /\ stack[Len(stack)].todo = <<>>
    /\ Set(elab_pop_scope(Cur))
    /\ UNCHANGED Others

\* elab() after the root callback has returned
elab_return ==
    /\ Running
    /\ Len(stack) = 1
    /\ Set(elab_finish(Cur))
    /\ UNCHANGED Others

Next ==
    \/ elab_set_generic
    \/ elab
    \/ elab_instance
    \/ elab_bound_architecture
    \/ elab_bound_module
    \/ elab_block
    \/ elab_for_generate
    \/ elab_for_generate_loop
    \/ elab_if_generate
    \/ elab_case_generate
    \/ elab_verilog
    \/ elab_process
    \/ elab_handler_return
    \/ elab_return

Spec == Init /\ [][Next]_vars

-----------------------------------------------------------------------------
(* Properties of the elaboration run *)

\* the entries of the history `consumed' for the override called name
ConsumedAs(name) == {i \in DOMAIN consumed : consumed[i].name = name}

\* the warnings 'generic value for NAME not used' for the override called name
ReportedUnused(name) ==
    {i \in DOMAIN diags : /\ diags[i].level = "warning"
                          /\ diags[i].msg = "generic value not used"
                          /\ diags[i].arg = name}

\* the nodes of the override table called name
ListedAs(name) ==
    {i \in DOMAIN generic_override : generic_override[i].name = name}

\* C1: once elab() has returned, every override registered with
\* elab_set_generic has been consumed by exactly one generic and removed from
\* the table, or has been reported by one 'generic value for NAME not used'
\* warning; none is consumed twice, none is left unreported.
C1_OverrideConsumedOnceOrReported ==
    pc = "done" =>
        \A k \in DOMAIN registered :
            \/ /\ Cardinality(ConsumedAs(registered[k])) = 1
               /\ ListedAs(registered[k]) = {}
               /\ ReportedUnused(registered[k]) = {}
            \/ /\ ConsumedAs(registered[k]) = {}
               /\ Cardinality(ReportedUnused(registered[k])) = 1

\* C2: no elaboration context is ever created with a depth above the limit,
\* whatever statements form the chain of contexts.
C2_NoContextBeyondMaxDepth ==
    \A i \in DOMAIN stack : stack[i].depth <= MAX_DEPTH

\* the 'maximum instantiation depth of 127 reached' diagnostics
DepthErrors ==
    {i \in DOMAIN diags : /\ diags[i].level = "error"
                          /\ diags[i].msg = "maximum instantiation depth reached"}

\* C3: elaborating a design whose top unit instantiates itself ends with
\* exactly one depth diagnostic and a null result.
C3_SelfInstantiationOneDiagnostic ==
    (pc = "done" /\ design.body \in SelfBodies) =>
        (Cardinality(DepthErrors) = 1 /\ result = "NULL")

RECURSIVE Span(_, _)
Span(low, high) ==
    IF ~I64Leq(low, high) THEN 0
    ELSE IF low = high THEN 1
    ELSE 1 + Span(I64Succ(low), high)

\* low + k for a small k
RECURSIVE I64Plus(_, _)
I64Plus(low, k) == IF k = 0 THEN low ELSE I64Plus(I64Succ(low), k - 1)

\* the child blocks of output block b, in the order they were appended
ChildBlocks(b) ==
    SelectSeq(blocks[b].stmts, LAMBDA st : st.kind = "T_BLOCK")

\* the for-generate statement the top-level architecture begins with
TopForGenerate ==
    /\ design.top # "WORK.VMOD"
    /\ design.body # <<>>
    /\ design.body[1].kind = "T_FOR_GENERATE"
    /\ design.body[1].range.static = "folded"

\* its loop has been entered, and has been left
TopForGenerateEntered ==
    /\ Len(blocks) >= 2
    /\ \E u \in DOMAIN lowered_units : lowered_units[u].out = 2

TopForGenerateLeft ==
    /\ TopForGenerateEntered
    /\ \/ Len(stack) < 2
       \/ /\ Len(stack) = 2
          /\ \A k \in DOMAIN stack[2].todo :
                stack[2].todo[k].kind \notin {"T_FOR_GENERATE", "FOR_ITER"}

\* the block of the k-th index of t under the parent block b
IsIterationBlock(c, b, t, i) ==
    /\ c.ident = t.ident \o "(" \o I64ToString(i) \o ")"
    /\ c.parent = b
    /\ Len(c.genmaps) = 1
    /\ c.genmaps[1].subkind = "P_POS"
    /\ c.genmaps[1].value = [kind |-> "T_LITERAL", subkind |-> "L_INT", ival |-> i]
    /\ c.hier # <<>> =>
          c.hier[1].ident2 = blocks[b].hier[1].ident2 \o "." \o c.ident

ExpandsTo(b, t, low, high) ==
    /\ Len(ChildBlocks(b)) <= Span(low, high)
    /\ \A k \in DOMAIN ChildBlocks(b) :
          IsIterationBlock(blocks[ChildBlocks(b)[k].block], b, t,
                           I64Plus(low, k - 1))
    /\ TopForGenerateLeft =>
          /\ Len(ChildBlocks(b)) = Span(low, high)
          /\ Span(low, high) = 0 => ErrorsIn(diags) = {}

\* C7: a for-generate with static bounds low and high expands to exactly
\* max(0, high - low + 1) child blocks, appended in ascending index order;
\* the block of index i is named label(i), has the dotted name of the parent
\* followed by '.label(i)' and carries exactly one P_POS genmap whose value is
\* the integer literal i; when low > high there is no child block and no
\* error.
C7_ForGenerateExpandsRange ==
    TopForGenerate /\ TopForGenerateEntered =>
        ExpandsTo(2, design.body[1],
                  IF design.body[1].range.subkind = "RANGE_TO"
                  THEN design.body[1].range.left ELSE design.body[1].range.right,
                  IF design.body[1].range.subkind = "RANGE_TO"
                  THEN design.body[1].range.right ELSE design.body[1].range.left)

\* the if-generate statement the top-level architecture begins with
TopIfGenerate ==
    /\ design.top # "WORK.VMOD"
    /\ design.body # <<>>
    /\ design.body[1].kind = "T_IF_GENERATE"

\* elab_if_generate has run for it
TopIfGenerateDone ==
    /\ TopForGenerateEntered
    /\ \/ Len(stack) < 2
       \/ \A k \in DOMAIN stack[2].todo :
             stack[2].todo[k].kind # "T_IF_GENERATE"

\* branch k applies: it is the else branch, or its condition is true
BranchApplies(t, k) ==
    \/ ~t.conds[k].has_value
    \/ t.conds[k].value.static = "folded" /\ t.conds[k].value.val

\* the first branch of t that applies, 0 when none does
FirstBranch(t) ==
    IF \E k \in DOMAIN t.conds : BranchApplies(t, k)
    THEN CHOOSE k \in DOMAIN t.conds :
            /\ BranchApplies(t, k)
            /\ \A j \in 1..(k - 1) : ~BranchApplies(t, j)
    ELSE 0

\* the conditions of t that elab_generate_test has been called on, in the
\* order of the calls
TestedConds(t) ==
    SelectSeq(evals, LAMBDA e : e.stmt = t.ident)

\* the conditions of t up to branch k, the else branch left out
CondsUpTo(t, k) ==
    SelectSeq([j \in 1..k |-> [stmt |-> t.ident, cond |-> j]],
              LAMBDA e : t.conds[e.cond].has_value)

ElaboratesFirstBranch(b, t) ==
    /\ Len(ChildBlocks(b)) <= 1
    /\ TopIfGenerateDone =>
          IF FirstBranch(t) = 0
          THEN /\ ChildBlocks(b) = <<>>
               /\ TestedConds(t) = CondsUpTo(t, Len(t.conds))
               /\ (\A k \in DOMAIN t.conds : t.conds[k].value.static = "folded")
                     => ErrorsIn(diags) = {}
          ELSE /\ Len(ChildBlocks(b)) = 1
               /\ blocks[ChildBlocks(b)[1].block].ident =
                     t.conds[FirstBranch(t)].ident
               /\ TestedConds(t) = CondsUpTo(t, FirstBranch(t))

\* C8: an if-generate elaborates at most one branch; its conditions are
\* tested in source order, a child block is emitted only for the first
\* branch whose condition is true or that has no condition, and no
\* condition after it is evaluated; when no condition is true and there is
\* no else branch no block is emitted and no error recorded.
C8_IfGenerateFirstBranchOnly ==
    TopIfGenerate /\ TopForGenerateEntered =>
        ElaboratesFirstBranch(2, design.body[1])

\* the first of three branches was taken while the second is true as well
C8_LaterTrueBranchSkipped ==
    /\ TopIfGenerate
    /\ TopIfGenerateDone
    /\ Len(design.body[1].conds) = 3
    /\ BranchApplies(design.body[1], 1)
    /\ BranchApplies(design.body[1], 2)
    /\ Len(ChildBlocks(2)) = 1
    /\ TestedConds(design.body[1]) = <<[stmt |-> "G", cond |-> 1]>>

MatchingOverrides(table, qual) ==
    {k \in DOMAIN table : table[k].name = qual}

\* the value generic resolution owes the formal of history entry e: the
\* override, else the positional actual, else the default
OwedValue(e) ==
    IF MatchingOverrides(e.table, e.qual) # {}
    THEN [kind |-> "T_LITERAL", subkind |-> "L_INT",
          ival |-> parse_value("INTEGER",
                     e.table[CHOOSE k \in MatchingOverrides(e.table, e.qual) :
                                \A j \in MatchingOverrides(e.table, e.qual) :
                                    k <= j].value)]
    ELSE IF e.has_actual THEN e.actual
    ELSE e.default

HasOwedValue(e) ==
    \/ MatchingOverrides(e.table, e.qual) # {}
    \/ e.has_actual
    \/ e.has_default

\* value is v, or what a reference v folds to
IsValueOf(value, v) ==
    \/ value = v
    \/ v.kind = "T_REF" /\ value.kind = "T_LITERAL"

\* C10: for each formal generic the value placed in the genmap of the output
\* block is the override that matches the name it is looked up under, and
\* that override is consumed; otherwise the positional actual when there is
\* one; otherwise the default of the formal; when none of the three exists
\* nothing is placed and the error 'missing value for generic' is recorded.
C10_OverrideThenActualThenDefault ==
    \A n \in DOMAIN genlog :
        /\ genlog[n].placed <=> HasOwedValue(genlog[n])
        /\ genlog[n].placed =>
              /\ IsValueOf(genlog[n].value, OwedValue(genlog[n]))
              /\ \E j \in DOMAIN blocks[genlog[n].out].genmaps :
                    /\ blocks[genlog[n].out].genmaps[j].pos = genlog[n].pos
                    /\ blocks[genlog[n].out].genmaps[j].subkind = "P_POS"
                    /\ blocks[genlog[n].out].genmaps[j].value = genlog[n].value
        /\ MatchingOverrides(genlog[n].table, genlog[n].qual) # {} =>
              \E c \in DOMAIN consumed :
                  /\ consumed[c].name = genlog[n].qual
                  /\ consumed[c].generic = genlog[n].ident
        /\ ~genlog[n].placed =>
              \E d \in DOMAIN diags :
                  /\ diags[d].level = "error"
                  /\ diags[d].msg = "missing value for generic"
                  /\ diags[d].arg = genlog[n].ident

\* a formal with an override, an actual and a default got the override
C10_OverrideBeatsActualAndDefault ==
    \E n \in DOMAIN genlog :
        /\ MatchingOverrides(genlog[n].table, genlog[n].qual) # {}
        /\ genlog[n].has_actual
        /\ genlog[n].has_default
        /\ genlog[n].placed
        /\ genlog[n].value # genlog[n].actual
        /\ genlog[n].value # genlog[n].default

-----------------------------------------------------------------------------
(* The architecture chooser on its own: elab_pick_arch over any library
   index, one lib_walk_index callback per step *)

IndexFiles == {"a.vhd", "b.vhd"}

\* the units a library may hold: two architectures of SUB, its entity, and
\* an architecture of another entity
PickUnits ==
    {LibEntry(n, "T_ARCH", t, f, l) :
        n \in {"WORK.SUB-A", "WORK.SUB-B"}, t \in 1..MaxMtime,
        f \in IndexFiles, l \in 1..2}
    \cup {LibEntry("WORK.SUB", "T_ENTITY", t, "a.vhd", 1) : t \in 1..MaxMtime}
    \cup {LibEntry("WORK.SUBX-A", "T_ARCH", t, "a.vhd", 9) : t \in 1..MaxMtime}

\* the enumerations of a library: any order, each name once
PickIndexes ==
    UNION {{s \in [1..n -> PickUnits] :
               \A i, j \in 1..n : s[i].name = s[j].name => i = j} :
           n \in 0..MaxLibUnits}

InitPick ==
    /\ pc = "pick"
    /\ walk \in {[index |-> s, pos |-> 0,
                  params |-> SearchParams(SearchName("WORK.SUB"))] :
                 s \in PickIndexes}
    /\ design = VerilogDesign(<<>>)
    /\ generic_override = <<>>
    /\ stack = <<>>
    /\ blocks = <<>>
    /\ diags = <<>>
    /\ result = "none"
    /\ registered = <<>>
    /\ consumed = <<>>
    /\ genlog = <<>>
    /\ evals = <<>>
    /\ lowered_units = <<>>
    /\ modcache = <<>>
    /\ complog = <<>>
    /\ modlog = <<>>
    /\ phases = <<>>
    /\ uses = <<>>
    /\ vbind = IdleVbind
    /\ first_run = NoRun
    /\ vhpi = IdleVhpi
    /\ binding = IdleBinding

NotWalk ==
    <<design, generic_override, stack, blocks, diags, result, registered,
      consumed, genlog, evals, lowered_units, modcache, binding, complog,
      modlog, phases, uses, vbind, first_run, vhpi>>

\* lib_walk_index hands the next unit of the index to elab_find_arch_cb
lib_walk_index ==
    /\ pc = "pick"
    /\ walk.pos < Len(walk.index)
    /\ walk' = [walk EXCEPT
                  !.pos = @ + 1,
                  !.params = elab_find_arch_cb(walk.index, walk.params,
                                               walk.index[walk.pos + 1])]
    /\ UNCHANGED <<pc, NotWalk>>

\* after the walk elab_pick_arch returns the chosen unit, or is fatal
elab_pick_arch_return ==
    /\ pc = "pick"
    /\ walk.pos = Len(walk.index)
    /\ pc' = IF walk.params.chosen = NULL THEN "fatal" ELSE "picked"
    /\ UNCHANGED <<walk, NotWalk>>

NextPick ==
    \/ lib_walk_index
    \/ elab_pick_arch_return

SpecPick == InitPick /\ [][NextPick]_vars

\* unit e is an architecture of the entity called search
IsArchOf(e, search) ==
    /\ e.kind = "T_ARCH"
    /\ Len(e.name) > Len(search) + 1
    /\ SubSeq(e.name, 1, Len(search) + 1) = search \o "-"

ArchsOf(index, search) ==
    {i \in DOMAIN index : IsArchOf(index[i], search)}

\* C5: whatever the enumeration order, elab_pick_arch returns an architecture
\* of the searched entity whose modification time is the maximum over the
\* entity's architectures (so of two architectures the younger one wins
\* whichever comes first); a unit that is not an architecture of that entity
\* is never chosen, and the pick fails only when the entity has none.
C5_PickedIsNewestArchitecture ==
    /\ pc = "picked" =>
          /\ \E i \in ArchsOf(walk.index, "WORK.SUB") :
                walk.index[i].name = walk.params.chosen
          /\ \A i, j \in ArchsOf(walk.index, "WORK.SUB") :
                walk.index[i].name = walk.params.chosen
                    => walk.index[j].mtime <= walk.index[i].mtime
          /\ walk.params = elab_pick_arch(walk.index, "WORK.SUB")
    /\ pc = "fatal" => ArchsOf(walk.index, "WORK.SUB") = {}

\* the younger architecture is enumerated first, the older one after it, a
\* unit of another kind with a later time is present, and the younger wins
C5_YoungerEnumeratedFirstPicked ==
    /\ pc = "picked"
    /\ \E i, j, k \in DOMAIN walk.index :
          /\ i < j
          /\ IsArchOf(walk.index[i], "WORK.SUB")
          /\ IsArchOf(walk.index[j], "WORK.SUB")
          /\ walk.index[j].mtime < walk.index[i].mtime
          /\ ~IsArchOf(walk.index[k], "WORK.SUB")
          /\ walk.index[k].mtime >= walk.index[i].mtime
          /\ walk.params.chosen = walk.index[i].name

-----------------------------------------------------------------------------
(* The default binding on its own: elab_default_binding for any component
   and entity declaration lists, one loop iteration per step *)

\* the lists over the declarations decls in which each name occurs once
DeclLists(decls) ==
    UNION {{s \in [1..n -> decls] :
               \A i, j \in 1..n : s[i].ident = s[j].ident => i = j} :
           n \in 0..2}

EntityGenerics ==
    {Generic(n, "C_CONSTANT", "INTEGER", FALSE, Open) : n \in {"WIDTH", "DEPTH"}}
    \cup {Generic(n, "C_CONSTANT", "INTEGER", TRUE, v) :
             n \in {"WIDTH", "DEPTH"}, v \in {Lit(8), Ref("N")}}

ComponentGenerics ==
    {Generic("width", "C_CONSTANT", t, FALSE, Open) : t \in {"INTEGER", "NATURAL"}}
    \cup {Generic("width", "C_PACKAGE", "INTEGER", FALSE, Open),
          Generic("DEPTH", "C_CONSTANT", "INTEGER", FALSE, Open)}

EntityPorts ==
    {Port(n, "BIT", "PORT_IN", hv, FALSE) : n \in {"CLK", "Q"}, hv \in BOOLEAN}
    \cup {Port("Q", "BIT", "PORT_OUT", FALSE, u) : u \in BOOLEAN}

ComponentPorts ==
    {Port("clk", t, "PORT_IN", FALSE, FALSE) : t \in {"BIT", "BOOLEAN"}}
    \cup {Port("Q", "BIT", "PORT_OUT", FALSE, FALSE)}

\* a library in which SUB has no architecture
IndexWithoutArch ==
    << LibEntry("WORK.TOP", "T_ENTITY", 10, "top.vhd", 1),
       LibEntry("WORK.TOP-RTL", "T_ARCH", 10, "top.vhd", 5),
       LibEntry("WORK.SUB", "T_ENTITY", 10, "sub.vhd", 1) >>

BindDesign(cname, eg, cg, ep, cp, index) ==
    [Design("WORK.TOP", <<Instance("U1", cname, <<>>)>>, <<>>, eg, cg)
        EXCEPT !.sub_ports = ep, !.comp_ports = cp, !.index = index]

\* every pair of generic lists with two pairs of port lists, and every pair
\* of port lists with two pairs of generic lists
BindDesigns ==
    {BindDesign("SUB", eg, cg, ep, <<Port("clk", "BIT", "PORT_IN", FALSE, FALSE)>>,
                WorkIndex) :
        eg \in DeclLists(EntityGenerics), cg \in DeclLists(ComponentGenerics),
        ep \in {<<Port("CLK", "BIT", "PORT_IN", FALSE, FALSE),
                  Port("Q", "BIT", "PORT_OUT", FALSE, u)>> : u \in BOOLEAN}}
    \cup
    {BindDesign("SUB", eg, <<Generic("width", "C_CONSTANT", "INTEGER", FALSE, Open)>>,
                ep, cp, WorkIndex) :
        eg \in {<<Generic("WIDTH", "C_CONSTANT", "INTEGER", FALSE, Open),
                  Generic("DEPTH", "C_CONSTANT", "INTEGER", TRUE, v)>> :
                 v \in {Lit(8), Ref("N")}},
        ep \in DeclLists(EntityPorts), cp \in DeclLists(ComponentPorts)}
    \cup {BindDesign("NOSUCH", <<>>, <<>>, <<>>, <<>>, WorkIndex),
          BindDesign("SUB", <<>>, <<>>, <<>>, <<>>, IndexWithoutArch)}

InitBind ==
    /\ pc = "bind"
    /\ design \in BindDesigns
    /\ binding = [state |-> "start"]
    /\ generic_override = <<>>
    /\ stack = <<>>
    /\ blocks = <<>>
    /\ diags = <<>>
    /\ result = "none"
    /\ registered = <<>>
    /\ consumed = <<>>
    /\ genlog = <<>>
    /\ evals = <<>>
    /\ lowered_units = <<>>
    /\ modcache = <<>>
    /\ complog = <<>>
    /\ modlog = <<>>
    /\ phases = <<>>
    /\ uses = <<>>
    /\ vbind = IdleVbind
    /\ first_run = NoRun
    /\ vhpi = IdleVhpi
    /\ walk = IdleWalk

\* the component the instance U1 of the design refers to, and its entity
BoundComponent == Obj(design, design.body[1].ref)

BoundEntity == lib_get(design, entity_name(BoundComponent))

\* the binding in progress: arch is the picked architecture, i the next loop
\* iteration (generics first, then ports), acc what tree_add_genmap and
\* add_param have added so far
BindLoop(arch, i, acc) ==
    [state |-> "loop", arch |-> arch, i |-> i, acc |-> acc]

BindDone(m, bind) ==
    /\ Set(m)
    /\ binding' = [state |-> "done", bind |-> bind]

\* the entity lookup and the architecture pick
default_binding_lookup ==
    /\ pc = "bind"
    /\ binding.state = "start"
    /\ IF BoundEntity.kind = "NULL" \/
          elab_pick_arch(design.index, BoundEntity.ident).chosen = NULL
       THEN BindDone(find_entity(Cur, design, BoundComponent, BoundEntity).m,
                     NoBinding)
       ELSE /\ binding' =
                 BindLoop(elab_pick_arch(design.index, BoundEntity.ident).chosen,
                          1, [error |-> NULL, genmaps |-> <<>>, params |-> <<>>])
            /\ UNCHANGED <<pc, generic_override, stack, blocks, diags, result,
                           consumed, genlog, evals, lowered_units, modcache,
                           complog, modlog, phases, uses>>
    /\ UNCHANGED <<design, registered, walk, vbind, first_run, vhpi>>

BindStep(acc) ==
    /\ binding' = [binding EXCEPT !.i = @ + 1, !.acc = acc]
    /\ UNCHANGED <<pc, generic_override, stack, blocks, diags, result,
                   consumed, genlog, evals, lowered_units, modcache,
                           complog, modlog, phases, uses>>

\* one iteration of the loop over the entity's generics
default_binding_generic ==
    /\ pc = "bind"
    /\ binding.state = "loop"
    /\ binding.acc.error = NULL
    /\ binding.i <= Len(BoundEntity.generics)
    /\ BindStep(add_bound_generic(binding.acc, binding.i,
                   bind_generic(BoundEntity.generics[binding.i], BoundComponent)))
    /\ UNCHANGED <<design, registered, walk, vbind, first_run, vhpi>>

\* one iteration of the loop over the entity's ports
default_binding_port ==
    /\ pc = "bind"
    /\ binding.state = "loop"
    /\ binding.acc.error = NULL
    /\ binding.i > Len(BoundEntity.generics)
    /\ binding.i <= Len(BoundEntity.generics) + Len(BoundEntity.ports)
    /\ BindStep(add_bound_port(binding.acc,
                   bind_port(BoundEntity.ports[binding.i - Len(BoundEntity.generics)],
                             BoundComponent)))
    /\ UNCHANGED <<design, registered, walk, vbind, first_run, vhpi>>

\* return bind, or return NULL after the diagnostic
default_binding_return ==
    /\ pc = "bind"
    /\ binding.state = "loop"
    /\ \/ binding.acc.error # NULL
       \/ binding.i > Len(BoundEntity.generics) + Len(BoundEntity.ports)
    /\ BindDone(binding_result(Cur, BoundComponent, binding.arch, binding.acc).m,
                binding_result(Cur, BoundComponent, binding.arch, binding.acc).bind)
    /\ UNCHANGED <<design, registered, walk, vbind, first_run, vhpi>>

NextBind ==
    \/ default_binding_lookup
    \/ default_binding_generic
    \/ default_binding_port
    \/ default_binding_return

SpecBind == InitBind /\ [][NextBind]_vars

\* the binding returned refers to an architecture
BindingSucceeded == binding.state = "done" /\ binding.bind.kind = "T_BINDING"

\* C6: a default binding that succeeds has exactly one P_POS genmap per
\* generic of the entity, the i-th at position i, and exactly one port
\* param per port of the entity, in the entity's order; it is the binding
\* elab_default_binding returns for the instance.
C6_DefaultBindingCoversEntity ==
    BindingSucceeded =>
        /\ Len(binding.bind.genmaps) = Len(BoundEntity.generics)
        /\ \A i \in DOMAIN binding.bind.genmaps :
              /\ binding.bind.genmaps[i].subkind = "P_POS"
              /\ binding.bind.genmaps[i].pos = i - 1
        /\ Len(binding.bind.params) = Len(BoundEntity.ports)
        /\ \A i \in DOMAIN binding.bind.params :
              /\ binding.bind.params[i].pos = i - 1
              /\ LET j == MatchIndex(BoundComponent.ports, BoundEntity.ports[i].ident)
                 IN  IF j = 0 THEN binding.bind.params[i].value = Open
                     ELSE binding.bind.params[i].value =
                             Ref(BoundComponent.ports[j].ident)
        /\ binding.bind =
              elab_default_binding([Cur EXCEPT !.diags = <<>>], design,
                                   design.body[1]).bind

\* a binding succeeded for an entity with two generics and two ports, of
\* which one generic and one port have no counterpart in the component
C6_BindingWithUnmatchedDefaults ==
    /\ BindingSucceeded
    /\ Len(BoundEntity.generics) = 2
    /\ Len(BoundEntity.ports) = 2
    /\ \E i \in 1..2 : MatchIndex(BoundComponent.generics,
                                  BoundEntity.generics[i].ident) = 0
    /\ \E i \in 1..2 : MatchIndex(BoundComponent.generics,
                                  BoundEntity.generics[i].ident) # 0
    /\ \E i \in 1..2 : MatchIndex(BoundComponent.ports,
                                  BoundEntity.ports[i].ident) = 0
    /\ \E i \in 1..2 : MatchIndex(BoundComponent.ports,
                                  BoundEntity.ports[i].ident) # 0

-----------------------------------------------------------------------------
(* Qualified names of generics *)

\* whether output block b was created for an instance statement: the block
\* of a component instance, or the block of an architecture that is not the
\* top-level one and not the one bound to a component
IsInstanceBlock(b) ==
    /\ blocks[b].hier # <<>>
    /\ \/ blocks[b].hier[1].subkind = "T_COMPONENT"
       \/ /\ blocks[b].hier[1].subkind = "T_ARCH"
          /\ blocks[b].parent # 1
          /\ blocks[blocks[b].parent].hier # <<>>
          /\ blocks[blocks[b].parent].hier[1].subkind # "T_COMPONENT"

\* the blocks from the root of the output tree down to b
RECURSIVE Ancestors(_)
Ancestors(b) ==
    IF b <= 1 THEN <<>> ELSE Append(Ancestors(blocks[b].parent), b)

\* the labels of the blocks of path joined by '.', followed by ident, each
\* instance block counted once
RECURSIVE EnclosingName(_, _)
EnclosingName(path, ident) ==
    IF path = <<>> THEN ident
    ELSE IF IsInstanceBlock(Head(path))
    THEN blocks[Head(path)].ident \o "." \o EnclosingName(Tail(path), ident)
    ELSE EnclosingName(Tail(path), ident)

\* C11: the name under which an override is looked up for a generic is the
\* labels of the instances enclosing it, outermost first and each exactly
\* once, followed by the generic's identifier; for a generic of the top-level
\* entity it is the identifier alone
C11_QualifiedNameListsEachInstanceOnce ==
    \A k \in DOMAIN genlog :
        genlog[k].qual = EnclosingName(Ancestors(genlog[k].out), genlog[k].ident)

-----------------------------------------------------------------------------
(* Elaborating the same unit twice *)

\* elab() called a second time in the same process on the same top-level
\* unit and library, after a call that returned the tree: a new T_ELAB node
\* and a new root context, while the override list is the process's and is
\* what the first call left of it
elab_again ==
    /\ pc = "done"
    /\ result = "T_ELAB"
    /\ first_run = NoRun
    /\ first_run' = [state |-> "returned", result |-> result,
                     blocks |-> blocks, table |-> registered]
    /\ Set(elab_start(Cur, design))
    /\ UNCHANGED <<design, registered, walk, binding, vbind, vhpi>>

NextRerun ==
    \/ Next
    \/ elab_again

SpecRerun == Init /\ [][NextRerun]_vars

\* C12: elaborating the same top-level unit twice in the same process, for
\* any contents of the override table before the first run, yields the same
\* output tree both times
C12_SecondRunYieldsSameTree ==
    (pc = "done" /\ first_run # NoRun) =>
        /\ result = first_run.result
        /\ blocks = first_run.blocks

-----------------------------------------------------------------------------
(* The module cache *)

\* the queries elab_cached_module has answered for the module called name
QueriesOf(name) == {k \in DOMAIN modlog : modlog[k].module = name}

\* C13: within one run of elab() the cache record of a Verilog module is
\* created (the module lowered and translated) at most once, every later
\* query for the module returns that record, no entry is removed or replaced
\* while elaboration is in progress, and the entries are freed by the root
\* driver once the recursion has finished
C13_ModuleCacheIdempotent ==
    /\ \A k1, k2 \in Created(modlog) :
          modlog[k1].module = modlog[k2].module => k1 = k2
    /\ \A k1, k2 \in DOMAIN modlog :
          modlog[k1].module = modlog[k2].module
              => modlog[k1].record = modlog[k2].record
    /\ pc = "run" =>
          \A k \in DOMAIN modlog :
              \E i \in DOMAIN modcache :
                  /\ modcache[i].module = modlog[k].module
                  /\ modcache[i].record = modlog[k].record
    /\ \A i, j \in DOMAIN modcache :
          modcache[i].module = modcache[j].module => i = j
    /\ pc = "done" => modcache = <<>>

\* a module instantiated twice has been queried twice, under a top-level
\* module that was cached before it, and the second query created nothing
C13_SecondQueryReturnsCachedRecord ==
    /\ pc = "run"
    /\ Len(modcache) = 2
    /\ \E k1, k2 \in QueriesOf("WORK.VSUB") :
          /\ k1 < k2
          /\ modlog[k1].created
          /\ ~modlog[k2].created
          /\ modlog[k2].record = modlog[k1].record

-----------------------------------------------------------------------------
(* Components: unique instances and binding *)

\* the component declaration that entry e of the history elaborated
ComponentOf(e) == Obj(design, e.comp)

\* whether some generic of component c is not a constant
HasNonConstantGeneric(c) ==
    \E i \in DOMAIN c.generics : c.generics[i].class # "C_CONSTANT"

\* the calls of elab_component that got past their binding
Elaborated == {k \in DOMAIN complog : blocks # <<>> /\ complog[k].out <= Len(blocks)}

\* C14: elaborating a component calls new_instance exactly once, on the
\* component and on its binding when there is one, if the component has a
\* generic that is not a constant, and never when all its generics are
\* constants or it has none
C14_UniqueInstanceIffNonConstantGeneric ==
    \A k \in Elaborated :
        IF HasNonConstantGeneric(ComponentOf(complog[k]))
        THEN /\ Len(complog[k].clones) = 1
             /\ complog[k].clones[1] =
                   IF complog[k].bind.kind # "NULL" THEN <<"comp", "bind">>
                   ELSE <<"comp">>
        ELSE complog[k].clones = <<>>

\* a bound component with a constant generic followed by a package and a
\* type generic has been elaborated and was cloned with its binding
C14_TwoNonConstantGenericsOneClone ==
    \E k \in Elaborated :
        /\ Len(ComponentOf(complog[k]).generics) = 3
        /\ ComponentOf(complog[k]).generics[1].class = "C_CONSTANT"
        /\ ComponentOf(complog[k]).generics[2].class = "C_PACKAGE"
        /\ ComponentOf(complog[k]).generics[3].class = "C_TYPE"
        /\ complog[k].bind.kind = "T_BINDING"
        /\ complog[k].clones = << <<"comp", "bind">> >>


\* the architecture and the block configuration that the binding indication
\* of specification sp designates
IndicatedUnit(sp) == Obj(design, sp.value.ref)

IndicatedConfig(sp) ==
    IF sp.decls # <<>> THEN sp.decls[1]
    ELSE IF IndicatedUnit(sp).kind = "T_CONFIGURATION"
    THEN IndicatedUnit(sp).decls[1]
    ELSE NoConfig

IndicatedArch(sp) ==
    IF IndicatedConfig(sp).kind # "NULL" THEN IndicatedConfig(sp).ref
    ELSE IF IndicatedUnit(sp).kind = "T_ENTITY"
    THEN elab_pick_arch(design.index, IndicatedUnit(sp).ident).chosen
    ELSE IndicatedUnit(sp).ident

\* C20: component elaboration derives arch, config and bind from the binding
\* indication of the applicable specification when there is one, and in
\* every other case (no applicable specification, or one that carries no
\* binding indication) attempts default binding
C20_BindingFromSpecElseDefault ==
    \A k \in DOMAIN complog :
        IF complog[k].spec.kind # "NULL" /\ complog[k].spec.has_value
        THEN /\ ~complog[k].by_default
             /\ k \in Elaborated =>
                   /\ complog[k].bind = complog[k].spec.value
                   /\ complog[k].arch = IndicatedArch(complog[k].spec)
                   /\ complog[k].config = IndicatedConfig(complog[k].spec)
        ELSE complog[k].by_default

-----------------------------------------------------------------------------
(* The VHPI test plugin (src/unnamed/part_000) over the callback service of
   the simulator.  The service and the design under test are not part of
   the sources at hand: the service is modelled from the VHPI standard
   (a callback is invoked when its trigger occurs, unless it is disabled or
   removed by then), the design from what the plugin asserts about it
   (y follows x + 1). *)

\* the delay with which the design assigns y, in fs: a delta cycle or 1 ns
SignalDelays == {0, 1000000}

\* one entry of the trace of service calls and callback invocations
Event(ev, cb, v) ==
    [ev |-> ev, cb |-> cb, time |-> v.now,
     rtn |-> IF cb <= Len(v.cbs) THEN v.cbs[cb].rtn ELSE NULL]

\* vhpi_register_cb(&cb_data, flags): the handle is the position in v.cbs;
\* delay is what cb_data.time points to, user what user_data points to
vhpi_register_cb(v, reason, rtn, delay, user, flags) ==
    [v EXCEPT !.cbs = Append(@, [reason |-> reason, rtn |-> rtn,
                                 due |-> v.now + delay, user |-> user,
                                 enabled |-> "vhpiDisableCb" \notin flags,
                                 removed |-> FALSE, triggered |-> FALSE,
                                 fired |-> FALSE]),
              !.trace = Append(@, [ev |-> IF "vhpiDisableCb" \in flags
                                          THEN "register_disabled"
                                          ELSE "register",
                                   cb |-> Len(v.cbs) + 1, time |-> v.now,
                                   rtn |-> rtn])]

\* the handle vhpi_register_cb has just returned
LastCb(v) == Len(v.cbs)

vhpi_disable_cb(v, cb) ==
    [v EXCEPT !.cbs[cb].enabled = FALSE,
              !.trace = Append(@, Event("disable", cb, v))]

vhpi_enable_cb(v, cb) ==
    [v EXCEPT !.cbs[cb].enabled = TRUE,
              !.trace = Append(@, Event("enable", cb, v))]

vhpi_remove_cb(v, cb) ==
    [v EXCEPT !.cbs[cb].removed = TRUE,
              !.trace = Append(@, Event("remove", cb, v))]

\* vhpi_put_value(handle_x, &value, vhpiForcePropagate): x is forced and the
\* design schedules y <= x + 1
vhpi_put_value(v, value) ==
    [v EXCEPT !.x = value,
              !.ysched = [pending |-> TRUE, at |-> v.now + v.delay,
                          value |-> value + 1]]

\* vhpi_control(vhpiFinish)
vhpi_control(v) == [v EXCEPT !.state = "finished"]

\* fail_unless(cond) of vhpi_test.h; fail_if(c) is fail_unless(!c)
fail_unless(v, cond) == IF cond THEN v ELSE [v EXCEPT !.failed = TRUE]

\* start_of_sim: x is forced to 5 and after_5ns is registered
start_of_sim(v) ==
    vhpi_register_cb(
        vhpi_put_value(fail_unless(v, v.now = 0 /\ v.x = 0), 5),
        "vhpiCbAfterDelay", "after_5ns", 5000000, NULL, {})

\* y_value_change: x is stepped until y reaches 75, then the run is finished
y_value_change(v) ==
    IF v.y = 75 THEN vhpi_control(v)
    ELSE vhpi_put_value(v, v.y + 1)

\* deferred_work without its call of vhpi_disable_cb
deferred_work_without_disable(v) ==
    vhpi_enable_cb(v, v.defer_enable)

\* deferred_work: vhpi_disable_cb(defer_disable); vhpi_enable_cb(defer_enable)
deferred_work(v) ==
    vhpi_enable_cb(vhpi_disable_cb(v, v.defer_disable), v.defer_enable)

\* mutual: removes both callbacks of the pair its user data points to
mutual(v, cb) ==
    vhpi_remove_cb(vhpi_remove_cb(v, v.pairs[cb.user][1]), v.pairs[cb.user][2])

\* disabled_callback: fail_if(1)
disabled_callback(v) == fail_unless(v, FALSE)

\* enabled_callback: the time must be 5 ns + 2 fs
enabled_callback(v) == fail_unless(v, v.now = 5000002)

\* cb = vhpi_register_cb(...); fail_if(vhpi_disable_cb(cb))
register_then_disable(v, reason, delay) ==
    vhpi_disable_cb(
        vhpi_register_cb(v, reason, "disabled_callback", delay, NULL,
                         {"vhpiReturnCb"}),
        Len(v.cbs) + 1)

\* cb = vhpi_register_cb(...); fail_if(vhpi_remove_cb(cb))
register_then_remove(v, reason, delay) ==
    vhpi_remove_cb(
        vhpi_register_cb(v, reason, "disabled_callback", delay, NULL,
                         {"vhpiReturnCb"}),
        Len(v.cbs) + 1)

\* mutual_cbN[0] = vhpi_register_cb(...); mutual_cbN[1] = vhpi_register_cb(...)
register_mutual(v, reason, delay, n) ==
    [vhpi_register_cb(
        vhpi_register_cb(v, reason, "mutual", delay, n, {"vhpiReturnCb"}),
        reason, "mutual", delay, n, {"vhpiReturnCb"})
     EXCEPT !.pairs[n] = <<Len(v.cbs) + 1, Len(v.cbs) + 2>>]

\* after_5ns, first part: the callbacks on the value of y
after_5ns_value_change(v) ==
    register_mutual(
        register_then_disable(
            vhpi_register_cb(
                vhpi_put_value(fail_unless(v, v.now = 5000000 /\ v.y = 6), 70),
                "vhpiCbValueChange", "y_value_change", 0, NULL, {}),
            "vhpiCbValueChange", 0),
        "vhpiCbValueChange", 0, 1)

\* after_5ns, second part: the callbacks after 1 fs that must not run
after_5ns_disabled(v) ==
    vhpi_register_cb(
        vhpi_remove_cb(
            register_then_disable(
                register_then_remove(
                    register_then_disable(v, "vhpiCbAfterDelay", 1),
                    "vhpiCbAfterDelay", 1),
                "vhpiCbAfterDelay", 1),
            Len(v.cbs) + 3),
        "vhpiCbAfterDelay", "disabled_callback", 1, NULL, {"vhpiDisableCb"})

\* defer_disable = vhpi_register_cb(...)
set_defer_disable(v) ==
    [vhpi_register_cb(v, "vhpiCbAfterDelay", "disabled_callback", 2, NULL,
                      {"vhpiReturnCb"})
     EXCEPT !.defer_disable = Len(v.cbs) + 1]

\* defer_enable = vhpi_register_cb(..., vhpiReturnCb | vhpiDisableCb)
set_defer_enable(v) ==
    [vhpi_register_cb(v, "vhpiCbAfterDelay", "enabled_callback", 2, NULL,
                      {"vhpiReturnCb", "vhpiDisableCb"})
     EXCEPT !.defer_enable = Len(v.cbs) + 1]

\* after_5ns, third part: the two callbacks after 2 fs, and after 1 fs the
\* callback that disables the first and enables the second
after_5ns_deferred(v) ==
    register_mutual(
        vhpi_register_cb(set_defer_enable(set_defer_disable(v)),
                         "vhpiCbAfterDelay", "deferred_work", 1, NULL, {}),
        "vhpiCbAfterDelay", 1, 2)

\* after_5ns, last part: the callbacks for the next time step
after_5ns_next_time_step(v) ==
    register_mutual(register_then_remove(v, "vhpiCbNextTimeStep", 0),
                    "vhpiCbNextTimeStep", 0, 3)

after_5ns(v) ==
    after_5ns_next_time_step(
        after_5ns_deferred(after_5ns_disabled(after_5ns_value_change(v))))

\* the callback routine of cb is called
call_rtn(v, cb) ==
    CASE cb.rtn = "after_5ns" -> after_5ns(v)
      [] cb.rtn = "y_value_change" -> y_value_change(v)
      [] cb.rtn = "deferred_work" -> deferred_work(v)
      [] cb.rtn = "mutual" -> mutual(v, cb)
      [] cb.rtn = "disabled_callback" -> disabled_callback(v)
      [] cb.rtn = "enabled_callback" -> enabled_callback(v)
      [] OTHER -> v

\* the service handles the trigger of callback c: the routine is called
\* unless the callback is disabled or removed; a callback for a time is
\* done with after its trigger
deliver(v, c) ==
    IF v.cbs[c].enabled /\ ~v.cbs[c].removed
    THEN call_rtn([v EXCEPT !.cbs[c].triggered = FALSE,
                            !.cbs[c].fired = v.cbs[c].reason # "vhpiCbValueChange",
                            !.trace = Append(@, Event("invoke", c, v))],
                  v.cbs[c])
    ELSE [v EXCEPT !.cbs[c].triggered = FALSE,
                   !.cbs[c].fired = v.cbs[c].reason # "vhpiCbValueChange"]

Triggered(v) == {c \in DOMAIN v.cbs : v.cbs[c].triggered}

\* the callbacks that wait for a time
Timed(v) ==
    {c \in DOMAIN v.cbs : /\ v.cbs[c].reason = "vhpiCbAfterDelay"
                          /\ ~v.cbs[c].fired /\ ~v.cbs[c].removed}

\* the times at which something is due
DueTimes(v) ==
    {v.cbs[c].due : c \in Timed(v)}
    \cup (IF v.ysched.pending THEN {v.ysched.at} ELSE {})

\* the triggers that occur when the time has become t
trigger_at(v, t) ==
    [v EXCEPT !.now = t,
              !.cbs = [c \in DOMAIN v.cbs |->
                  IF \/ c \in Timed(v) /\ v.cbs[c].due = t
                     \/ /\ v.cbs[c].reason = "vhpiCbNextTimeStep"
                        /\ ~v.cbs[c].fired /\ ~v.cbs[c].removed
                  THEN [v.cbs[c] EXCEPT !.triggered = TRUE]
                  ELSE v.cbs[c]]]

\* y takes its scheduled value: the callbacks on its value are triggered
update_y(v) ==
    [v EXCEPT !.y = v.ysched.value,
              !.ysched.pending = FALSE,
              !.cbs = [c \in DOMAIN v.cbs |->
                  IF /\ v.cbs[c].reason = "vhpiCbValueChange"
                     /\ ~v.cbs[c].removed
                     /\ v.ysched.value # v.y
                  THEN [v.cbs[c] EXCEPT !.triggered = TRUE]
                  ELSE v.cbs[c]]]

InitVhpi ==
    /\ pc = "vhpi"
    /\ vhpi \in {[state |-> "init", now |-> 0, x |-> 0, y |-> 0,
                  delay |-> d,
                  ysched |-> [pending |-> FALSE, at |-> 0, value |-> 0],
                  cbs |-> <<>>, trace |-> <<>>, failed |-> FALSE,
                  defer_disable |-> 0, defer_enable |-> 0,
                  pairs |-> <<<<0, 0>>, <<0, 0>>, <<0, 0>>>>] :
                 d \in SignalDelays}
    /\ design = VerilogDesign(<<>>)
    /\ generic_override = <<>>
    /\ stack = <<>>
    /\ blocks = <<>>
    /\ diags = <<>>
    /\ result = "none"
    /\ registered = <<>>
    /\ consumed = <<>>
    /\ genlog = <<>>
    /\ evals = <<>>
    /\ lowered_units = <<>>
    /\ modcache = <<>>
    /\ complog = <<>>
    /\ modlog = <<>>
    /\ phases = <<>>
    /\ uses = <<>>
    /\ vbind = IdleVbind
    /\ first_run = NoRun
    /\ walk = IdleWalk
    /\ binding = IdleBinding

NotVhpi ==
    <<pc, design, generic_override, stack, blocks, diags, result, registered,
      consumed, genlog, evals, lowered_units, modcache, complog, modlog,
      phases, uses,
      vbind, first_run, walk, binding>>

\* the start of simulation: the callback registered by the startup routine
vhpi_start_of_sim ==
    /\ pc = "vhpi"
    /\ vhpi.state = "init"
    /\ vhpi' = start_of_sim([vhpi EXCEPT !.state = "run"])
    /\ UNCHANGED NotVhpi

\* one triggered callback is handled; the order among callbacks triggered
\* together is the service's choice
vhpi_callback ==
    /\ pc = "vhpi"
    /\ vhpi.state = "run"
    /\ \E c \in Triggered(vhpi) : vhpi' = deliver(vhpi, c)
    /\ UNCHANGED NotVhpi

\* a delta cycle: the assignment to y that is due now takes effect
vhpi_signal_update ==
    /\ pc = "vhpi"
    /\ vhpi.state = "run"
    /\ Triggered(vhpi) = {}
    /\ vhpi.ysched.pending
    /\ vhpi.ysched.at = vhpi.now
    /\ vhpi' = update_y(vhpi)
    /\ UNCHANGED NotVhpi

\* the time advances to the next time at which something is due, and the
\* simulation ends when nothing is
vhpi_next_time ==
    /\ pc = "vhpi"
    /\ vhpi.state = "run"
    /\ Triggered(vhpi) = {}
    /\ ~(vhpi.ysched.pending /\ vhpi.ysched.at = vhpi.now)
    /\ IF DueTimes(vhpi) = {}
       THEN vhpi' = [vhpi EXCEPT !.state = "finished"]
       ELSE vhpi' = trigger_at(vhpi,
                       CHOOSE t \in DueTimes(vhpi) :
                           \A u \in DueTimes(vhpi) : t <= u)
    /\ UNCHANGED NotVhpi

NextVhpi ==
    \/ vhpi_start_of_sim
    \/ vhpi_callback
    \/ vhpi_signal_update
    \/ vhpi_next_time

SpecVhpi == InitVhpi /\ [][NextVhpi]_vars


\* the positions of the trace at which a callback routine was called
Invocations == {p \in DOMAIN vhpi.trace : vhpi.trace[p].ev = "invoke"}

\* the calls before position p that set whether callback c is enabled
EnablingOps(p, c) ==
    {q \in 1..(p - 1) :
        /\ vhpi.trace[q].cb = c
        /\ vhpi.trace[q].ev \in {"register", "register_disabled",
                                 "disable", "enable"}}

\* callback c is disabled at position p: the last such call disabled it
DisabledAt(p, c) ==
    \E q \in EnablingOps(p, c) :
        /\ \A r \in EnablingOps(p, c) : r <= q
        /\ vhpi.trace[q].ev \in {"register_disabled", "disable"}

RemovedBefore(p, c) ==
    \E q \in 1..(p - 1) :
        vhpi.trace[q].cb = c /\ vhpi.trace[q].ev = "remove"

\* the invocations of callback c
InvocationsOf(c) == {p \in Invocations : vhpi.trace[p].cb = c}

\* the time for which callback c was registered has passed
PastDue(c) ==
    \/ vhpi.now > vhpi.cbs[c].due
    \/ vhpi.state = "finished" /\ vhpi.now >= vhpi.cbs[c].due /\ Triggered(vhpi) = {}

-----------------------------------------------------------------------------
(* C16: errors and the remaining phases *)

\* C16: once an error has been recorded nothing more is lowered: every
\* unit elab_lower has created was created while the error count was zero.
C16_NothingLoweredAfterError ==
    \A u \in DOMAIN lowered_units : lowered_units[u].errors = 0


-----------------------------------------------------------------------------
(* C17: lowered units and scope lifetimes *)

\* the contexts on the stack that hold unit u
HoldersOf(u) == {k \in DOMAIN stack : stack[k].lowered = u}

\* C17: a unit obtained from elab_lower is held by exactly one context
\* until that context's elab_pop_scope finalises it, which happens once
\* and before the unit of the parent context, under which it was lowered,
\* is finalised; when elab returns without a fatal error every unit has
\* been finalised exactly once, errors or not.
C17_LoweredUnitFinalisedOnceNested ==
    pc # "fatal" =>
        \A u \in DOMAIN lowered_units :
            /\ lowered_units[u].finalised <= 1
            /\ lowered_units[u].finalised = 0 <=> Cardinality(HoldersOf(u)) = 1
            /\ lowered_units[u].finalised = 1 => HoldersOf(u) = {}
            /\ pc = "done" => lowered_units[u].finalised = 1
            /\ (lowered_units[u].parent # 0
                /\ lowered_units[lowered_units[u].parent].finalised > 0)
               => /\ lowered_units[u].finalised = 1
                  /\ lowered_units[u].order
                        < lowered_units[lowered_units[u].parent].order

\* elab has returned after an error was recorded, and a unit lowered under
\* another unit was finalised before it
C17_NestedUnitsFinalisedWithErrors ==
    /\ pc = "done"
    /\ ErrorsIn(diags) # {}
    /\ \E u \in DOMAIN lowered_units :
          /\ lowered_units[u].parent # 0
          /\ lowered_units[u].finalised = 1
          /\ lowered_units[u].order
                < lowered_units[lowered_units[u].parent].order


-----------------------------------------------------------------------------
(* C18, C19: generate statements that are not static *)

\* the error msg has been recorded
Recorded(msg) == \E i \in DOMAIN diags : diags[i].msg = msg

\* the top-level architecture begins with a for-generate whose range the
\* evaluator cannot fold
TopNonStaticForGenerate ==
    /\ design.top # "WORK.VMOD"
    /\ design.body # <<>>
    /\ design.body[1].kind = "T_FOR_GENERATE"
    /\ design.body[1].range.static = "nonstatic"

\* C18: when the range of a for-generate is not static, elaboration of the
\* statement stops there: once 'generate range is not static' has been
\* recorded for the statement the architecture begins with, no block of it
\* is appended to the architecture's block and no context is entered for it.
C18_NonStaticRangeExpandsNoBlock ==
    (TopNonStaticForGenerate /\ Recorded("generate range is not static")) =>
        /\ ChildBlocks(2) = <<>>
        /\ \A k \in DOMAIN stack : stack[k].kind # "for_generate"

\* C19: when a condition of an if-generate is not static, no branch of the
\* statement gets a block: once 'generate expression is not static' has
\* been recorded for the if-generate the architecture begins with, the
\* architecture's block has no child block.
C19_NonStaticConditionEmitsNoBlock ==
    (TopIfGenerate /\ Recorded("generate expression is not static")) =>
        ChildBlocks(2) = <<>>


-----------------------------------------------------------------------------
(* C21: unresolved components *)

\* C21: a component for which default binding finds no entity is recorded
\* as an error: whenever 'cannot find entity for component' has been
\* reported, it has been reported at level error, so the error count is
\* not zero.
C21_UnresolvedComponentIsError ==
    \A i \in DOMAIN diags :
        diags[i].msg = "cannot find entity for component" =>
            /\ diags[i].level = "error"
            /\ ErrorsIn(diags) # {}


-----------------------------------------------------------------------------
(* C22: the order of the phases and of the statements *)

\* the phases of elab_architecture, in the order the spec gives them
ArchPhases ==
    <<"entity context", "arch context", "generics", "fixup", "simplify",
      "ports", "entity decls", "arch decls", "drivers", "lower">>

\* the phases logged for output block o, in the order they were run
PhasesOf(o) == SelectSeq(phases, LAMBDA e : e.out = o)

\* the place of phase p in that order, 0 for a phase of another handler
PhaseIndex(p) ==
    IF \E k \in DOMAIN ArchPhases : ArchPhases[k] = p
    THEN CHOOSE k \in DOMAIN ArchPhases : ArchPhases[k] = p
    ELSE 0

\* the label under which output statement st of a block appears
OutLabel(st) ==
    IF st.kind = "T_BLOCK" THEN blocks[st.block].ident ELSE st.ident

\* output label l comes from source statement src
ComesFrom(l, src) ==
    CASE src.kind = "T_FOR_GENERATE" -> IsExtension(l, src.ident, "(")
      [] src.kind = "T_IF_GENERATE" ->
            \E k \in DOMAIN src.conds : src.conds[k].ident = l
      [] src.kind = "T_CASE_GENERATE" ->
            \/ l = src.ident
            \/ \E k \in DOMAIN src.alts : src.alts[k].ident = l
      [] OTHER -> l = src.ident

\* the statements of the top-level entity, then those of its architecture
TopSource == design.top_stmts \o design.body

\* the source statements that output statement st may come from
SourcesOf(st) ==
    {k \in DOMAIN TopSource : ComesFrom(OutLabel(st), TopSource[k])}

\* C22: elab_architecture runs its phases in the order entity context, arch
\* context, generics, fixup, simplify, ports, entity decls, arch decls,
\* drivers, lower (each phase but the first directly follows the one
\* before it in that list, for the same block), and the statements are
\* then elaborated in source order,
\* those of the entity first: each statement of the top-level block comes
\* from a source statement, no statement of the block comes from an earlier
\* source statement than one before it, and a copied process is the source
\* statement itself.
C22_PhasesAndStatementsInOrder ==
    /\ \A i \in DOMAIN phases :
          PhaseIndex(phases[i].phase) > 1 =>
              /\ i > 1
              /\ phases[i - 1].out = phases[i].out
              /\ phases[i - 1].phase = ArchPhases[PhaseIndex(phases[i].phase) - 1]
    /\ (design.top # "WORK.VMOD" /\ Len(blocks) >= 2) =>
          /\ blocks[2].stmts # <<>> =>
                \E i \in DOMAIN PhasesOf(2) : PhasesOf(2)[i].phase = "lower"
          /\ \A j \in DOMAIN blocks[2].stmts :
                /\ SourcesOf(blocks[2].stmts[j]) # {}
                /\ blocks[2].stmts[j].kind = "T_PROCESS" =>
                      \E k \in SourcesOf(blocks[2].stmts[j]) :
                          TopSource[k] = blocks[2].stmts[j]
                /\ \A i \in 1..(j - 1) :
                      \A kj \in SourcesOf(blocks[2].stmts[j]) :
                          \A ki \in SourcesOf(blocks[2].stmts[i]) : ki <= kj

\* elab has returned for a design whose entity has two statements and
\* whose architecture has six: the top-level block went through all ten
\* phases and holds the nine statements they expand to
C22_EntityAndArchStatementsElaborated ==
    /\ pc = "done"
    /\ Len(design.top_stmts) = 2
    /\ Len(design.body) = 6
    /\ Len(PhasesOf(2)) = Len(ArchPhases)
    /\ Len(blocks[2].stmts) = 9
    /\ OutLabel(blocks[2].stmts[1]) = "PE"
    /\ OutLabel(blocks[2].stmts[9]) = "P4"


-----------------------------------------------------------------------------
(* C28: the opening assertion of elab_instance_fixup *)

\* the calls of elab_instance_fixup that got past its check of the standard
FixupCalls ==
    {i \in DOMAIN phases :
        /\ phases[i].phase \in {"fixup", "component fixup"}
        /\ design.standard = "STD_08"}

\* C28: whenever elab_instance_fixup runs on an output block, the block has
\* as many genmaps as generics, so that its opening assertion holds.
C28_FixupSeesOneGenmapPerGeneric ==
    \A i \in FixupCalls : phases[i].genmaps = phases[i].generics


-----------------------------------------------------------------------------
(* C23: architectures with the same modification time *)

\* the index holds exactly the architectures i and j of SUB, i enumerated
\* before j, and both have the same modification time
TiedPair(i, j) ==
    /\ ArchsOf(walk.index, "WORK.SUB") = {i, j}
    /\ i < j
    /\ walk.index[i].mtime = walk.index[j].mtime

-----------------------------------------------------------------------------
(* The binding builders run on lists of ports *)

\* the longest lists of ports and of connections handed to the builders
MaxVPorts == 2

\* the name of the i-th port of a block
VPortName(i) == <<"a", "b", "c", "d">>[i]

\* the name of the i-th declaration a connection refers to
ConnName(i) == <<"x", "y", "z", "w">>[i]

\* the lists of at most MaxVPorts records of S
PortLists(S) ==
    UNION {[1..n -> S] : n \in 0..MaxVPorts}

\* a list of declarations whose names are all different
DistinctNames(l) ==
    \A i, j \in DOMAIN l : i # j => l[i].ident # l[j].ident

\* the ports of a component: VHDL signals
CompPortLists ==
    {l \in PortLists([ident : {"a", "b"},
                      type : {"STD_LOGIC", "STD_ULOGIC", "BIT"}]) :
        DistinctNames(l)}

VerilogTypes ==
    {"VERILOG_LOGIC", "VERILOG_NET_VALUE", "VERILOG_LOGIC_ARRAY"}

\* the ports of a Verilog module as the component sees them
ModulePortLists ==
    {l \in PortLists([ident : {"a", "b"},
                      subkind : {"V_PORT_INPUT", "V_PORT_OUTPUT"},
                      type : VerilogTypes]) :
        DistinctNames(l)}

\* the ports of the block of a Verilog module, named in order
BlockPortLists ==
    {l \in PortLists([ident : {VPortName(i) : i \in 1..MaxVPorts},
                      subkind : {"PORT_IN", "PORT_OUT"},
                      type : VerilogTypes]) :
        \A i \in DOMAIN l : l[i].ident = VPortName(i)}

\* the declarations the connections of a Verilog instance refer to
ConnLists ==
    {l \in PortLists([ident : {ConnName(i) : i \in 1..MaxVPorts},
                      type : VerilogTypes]) :
        \A i \in DOMAIN l : l[i].ident = ConnName(i)}

\* the associations of a port map: positional ones first, in position, then
\* named ones, of a whole port, of a part of it, or through a conversion
NamedAssocs ==
    {[NamedParam(n, Ref("s")) EXCEPT !.conv = f.conv, !.plain = f.plain] :
        n \in {"a", "b"},
        f \in {[conv |-> FALSE, plain |-> TRUE],
               [conv |-> FALSE, plain |-> FALSE],
               [conv |-> TRUE, plain |-> FALSE]}}

PortMaps ==
    {l \in PortLists({PosParam(i, Ref("s")) : i \in 0..(MaxVPorts - 1)}
                     \cup NamedAssocs) :
        \A i \in DOMAIN l :
            /\ l[i].subkind = "P_POS" => l[i].pos = i - 1
            /\ (i > 1 /\ l[i].subkind = "P_POS") => l[i - 1].subkind = "P_POS"}

EntityPortLists ==
    {l \in PortLists([ident : {VPortName(i) : i \in 1..MaxVPorts}]) :
        /\ Len(l) > 0
        /\ \A i \in DOMAIN l : l[i].ident = VPortName(i)}

InitVbind ==
    /\ pc = "vbind"
    /\ vbind \in
         {StartVbind("elab_mixed_binding", f, a, "checked") :
             f \in ModulePortLists, a \in CompPortLists}
         \cup {StartVbind("elab_verilog_binding", f, a, b) :
             f \in BlockPortLists, a \in ConnLists,
             b \in {"checked", "unchecked"}}
         \cup {StartVbind("elab_ports", f, a, "checked") :
             f \in EntityPortLists, a \in PortMaps}
    /\ design = VerilogDesign(<<>>)
    /\ generic_override = <<>>
    /\ stack = <<>>
    /\ blocks = <<>>
    /\ diags = <<>>
    /\ result = "none"
    /\ registered = <<>>
    /\ consumed = <<>>
    /\ genlog = <<>>
    /\ evals = <<>>
    /\ lowered_units = <<>>
    /\ modcache = <<>>
    /\ complog = <<>>
    /\ modlog = <<>>
    /\ phases = <<>>
    /\ uses = <<>>
    /\ first_run = NoRun
    /\ walk = IdleWalk
    /\ binding = IdleBinding
    /\ vhpi = IdleVhpi

NotVbind ==
    <<pc, design, generic_override, stack, blocks, diags, result, registered,
      consumed, genlog, evals, lowered_units, modcache, complog, modlog,
      phases, uses, first_run, walk, binding, vhpi>>

Looping(fn) ==
    /\ pc = "vbind"
    /\ vbind.fn = fn
    /\ vbind.state = "loop"

\* elab_mixed_binding: the next port of the module
mixed_binding_port ==
    /\ Looping("elab_mixed_binding")
    /\ vbind.i <= Len(vbind.formals)
    /\ vbind' = mixed_port(vbind, vbind.formals[vbind.i],
                           find_cport(vbind.actuals, 1,
                                      vbind.formals[vbind.i].ident))
    /\ UNCHANGED NotVbind

\* elab_mixed_binding: after the last port of the module
mixed_binding_return ==
    /\ Looping("elab_mixed_binding")
    /\ vbind.i > Len(vbind.formals)
    /\ vbind' = mixed_return(vbind)
    /\ UNCHANGED NotVbind

\* elab_verilog_binding: up to the loop
verilog_binding_check ==
    /\ pc = "vbind"
    /\ vbind.fn = "elab_verilog_binding"
    /\ vbind.state = "check"
    /\ vbind' = verilog_check(vbind)
    /\ UNCHANGED NotVbind

\* elab_verilog_binding: the next connection of the instance
verilog_binding_port ==
    /\ Looping("elab_verilog_binding")
    /\ vbind.i <= Len(vbind.formals)
    /\ vbind' = verilog_port(vbind, vbind.actuals[vbind.i],
                             vbind.formals[vbind.i])
    /\ UNCHANGED NotVbind

\* elab_verilog_binding: after the last connection
verilog_binding_return ==
    /\ Looping("elab_verilog_binding")
    /\ vbind.i > Len(vbind.formals)
    /\ vbind' = verilog_return(vbind)
    /\ UNCHANGED NotVbind

\* the maps elab_ports adds for the i-th port
ports_port(st) ==
    [st EXCEPT
        !.i = @ + 1,
        !.params = port_maps([params |-> st.actuals], st.i, st.formals[st.i],
                             [params |-> st.params,
                              have_named |-> st.have_named,
                              found |-> FALSE]).params,
        !.have_named = port_maps([params |-> st.actuals], st.i,
                                 st.formals[st.i],
                                 [params |-> st.params,
                                  have_named |-> st.have_named,
                                  found |-> FALSE]).have_named,
        !.state = IF st.i = Len(st.formals) THEN "done" ELSE "loop",
        !.result = IF st.i = Len(st.formals) THEN "bound" ELSE "none"]

\* elab_ports: the next port of the entity
elab_ports_port ==
    /\ Looping("elab_ports")
    /\ vbind.i <= Len(vbind.formals)
    /\ vbind' = ports_port(vbind)
    /\ UNCHANGED NotVbind

NextVbind ==
    \/ mixed_binding_port
    \/ mixed_binding_return
    \/ verilog_binding_check
    \/ verilog_binding_port
    \/ verilog_binding_return
    \/ elab_ports_port

SpecVbind == InitVbind /\ [][NextVbind]_vars


-----------------------------------------------------------------------------
(* C24: the coercion tables of a mixed binding *)

Funcs(table) == {table[i].func : i \in DOMAIN table}

MixedLookups ==
    IF vbind.fn = "elab_mixed_binding" THEN DOMAIN vbind.lookups ELSE {}

\* C24 as stated: binding an input port of the Verilog module looks up the
\* coercions from Verilog LOGIC and NET_VALUE to STD_LOGIC, and binding an
\* output port looks up the coercions from STD_ULOGIC to Verilog LOGIC and
\* NET_VALUE.
C24_InputLooksUpToVhdl ==
    \A k \in MixedLookups :
        /\ vbind.lookups[k].subkind = "V_PORT_INPUT"
              => vbind.lookups[k].table = "elab_to_vhdl"
        /\ vbind.lookups[k].subkind = "V_PORT_OUTPUT"
              => vbind.lookups[k].table = "elab_to_verilog"

\* C24 amended: binding an input port of the Verilog module looks up the
\* coercions from STD_ULOGIC to Verilog LOGIC and NET_VALUE, keyed on the
\* type of the component port and the type of the module port, and the
\* function found converts the component port; binding an output port looks
\* up the coercions from Verilog LOGIC and NET_VALUE to STD_LOGIC, and the
\* function found converts the module port.
C24_InputLooksUpToVerilog ==
    \A k \in MixedLookups :
        /\ vbind.lookups[k].subkind = "V_PORT_INPUT" =>
              /\ vbind.lookups[k].table = "elab_to_verilog"
              /\ vbind.lookups[k].func \in Funcs(ToVerilogTable) \cup {NULL}
              /\ vbind.lookups[k].to \in VerilogTypes
              /\ k <= Len(vbind.params) =>
                    /\ vbind.params[k].value.kind = "T_CONV_FUNC"
                    /\ vbind.params[k].value.ident \in Funcs(ToVerilogTable)
                    /\ vbind.params[k].value.value.ref \in
                          {vbind.actuals[j] : j \in DOMAIN vbind.actuals}
        /\ vbind.lookups[k].subkind = "V_PORT_OUTPUT" =>
              /\ vbind.lookups[k].table = "elab_to_vhdl"
              /\ vbind.lookups[k].func \in Funcs(ToVhdlTable) \cup {NULL}
              /\ vbind.lookups[k].from \in VerilogTypes
              /\ k <= Len(vbind.params) =>
                    /\ vbind.params[k].name.kind = "T_CONV_FUNC"
                    /\ vbind.params[k].name.ident \in Funcs(ToVhdlTable)
                    /\ vbind.params[k].name.value.ref \in
                          {vbind.formals[j] : j \in DOMAIN vbind.formals}

\* a binding was built that connects a std_logic port of the component to an
\* input of the module and another port to an output of the module
C24_InputAndOutputBound ==
    /\ vbind.fn = "elab_mixed_binding"
    /\ vbind.result = "bound"
    /\ Len(vbind.params) = 2
    /\ \E k \in DOMAIN vbind.lookups :
          /\ vbind.lookups[k].subkind = "V_PORT_INPUT"
          /\ vbind.lookups[k].from = "STD_LOGIC"
          /\ vbind.lookups[k].to = "VERILOG_LOGIC"
    /\ \E k \in DOMAIN vbind.lookups :
          vbind.lookups[k].subkind = "V_PORT_OUTPUT"


-----------------------------------------------------------------------------
(* C25: a type pair without coercion *)

\* a connection handled so far needed a coercion that the table of its
\* builder does not have
MissingCoercion ==
    \/ /\ vbind.fn = "elab_mixed_binding"
       /\ \E k \in DOMAIN vbind.lookups : vbind.lookups[k].func = NULL
    \/ /\ vbind.fn = "elab_verilog_binding"
       /\ vbind.state # "check"
       /\ \E k \in 1..(vbind.i - 1) :
             /\ k <= Len(vbind.formals)
             /\ Len(vbind.formals) = Len(vbind.actuals)
             /\ ~type_eq(vbind.actuals[k].type, vbind.formals[k].type)
             /\ verilog_coercion(vbind.actuals[k], vbind.formals[k]) = NULL

\* C25: when a port connection needs a coercion for a type pair that has no
\* entry in the table of its builder, the builder records an error and
\* returns no binding; it neither accepts the pair nor aborts on an assertion.
C25_MissingCoercionIsBindingError ==
    MissingCoercion =>
        /\ vbind.result = "NULL"
        /\ Len(vbind.errors) > 0


-----------------------------------------------------------------------------
(* C26: positional parameters first, named ones after *)

PosNeverFollowsNamed(params) ==
    \A i, j \in DOMAIN params :
        (i < j /\ params[i].subkind = "P_NAMED") => params[j].subkind # "P_POS"

\* C26: in the binding elab_mixed_binding and elab_verilog_binding build and
\* in the parameters elab_ports adds to the output block no positional
\* parameter follows a named one, and the parameter of every output port of
\* the Verilog module of a mixed binding is named.
C26_PositionalUntilFirstNamed ==
    /\ vbind.fn \in {"elab_mixed_binding", "elab_verilog_binding", "elab_ports"}
          => PosNeverFollowsNamed(vbind.params)
    /\ vbind.fn = "elab_mixed_binding" =>
          \A k \in DOMAIN vbind.params :
              vbind.lookups[k].subkind = "V_PORT_OUTPUT"
                  => vbind.params[k].subkind = "P_NAMED"

\* a mixed binding in which an input port of the module follows an output
\* port, so that the input is connected by name
C26_InputAfterOutputIsNamed ==
    /\ vbind.fn = "elab_mixed_binding"
    /\ vbind.result = "bound"
    /\ Len(vbind.params) = 2
    /\ vbind.formals[1].subkind = "V_PORT_OUTPUT"
    /\ vbind.formals[2].subkind = "V_PORT_INPUT"
    /\ vbind.params[2].subkind = "P_NAMED"
    /\ vbind.params[2].value.kind = "T_CONV_FUNC"


-----------------------------------------------------------------------------
(* C27: the specification elab_find_spec applies to an instance *)

\* the longest list of declarations of a block configuration looked through
MaxSpecs == 3

\* specifications for component SUB that name U1, U2 or all, or no label,
\* one for another component, and a nested block configuration
SpecChoices ==
    { ConfSpec(TRUE, l, "SUB", TRUE, Binding(u, <<>>, <<>>), <<>>) :
         l \in {"U1", "U2", "all"}, u \in {"WORK.SUB", "WORK.SUB-TB"} }
    \cup { ConfSpec(FALSE, NULL, "SUB", TRUE, Binding(u, <<>>, <<>>), <<>>) :
         u \in {"WORK.SUB", "WORK.SUB-TB"} }
    \cup { ConfSpec(TRUE, "all", "OTHER", FALSE, NoBinding, <<>>),
           BlockConfig("B1", "WORK.TOP-RTL", <<>>) }

SpecLists == UNION {[1..n -> SpecChoices] : n \in 0..MaxSpecs}

ExplicitSpec == ConfSpec(TRUE, "U1", "SUB", TRUE,
                         Binding("WORK.SUBCFG", <<>>, <<>>), <<>>)

InitFindSpec ==
    /\ pc = "find_spec"
    /\ vbind \in
         {[fn |-> "elab_find_spec", state |-> "call",
           inst |-> Instance("U1", "SUB", <<>>),
           ctx |-> [config |-> BlockConfig(NULL, "WORK.TOP-RTL", decls)],
           spec |-> NoSpec] : decls \in SpecLists}
         \cup
         {[fn |-> "elab_find_spec", state |-> "call",
           inst |-> SpecInstance("U1", "SUB", <<>>, sp),
           ctx |-> [config |-> c],
           spec |-> NoSpec] :
             sp \in {NoSpec, ExplicitSpec},
             c \in {NoConfig,
                    BlockConfig(NULL, "WORK.TOP-RTL",
                       <<ConfSpec(TRUE, "all", "SUB", TRUE,
                                  Binding("WORK.SUB", <<>>, <<>>), <<>>)>>)}}
    /\ design = VerilogDesign(<<>>)
    /\ generic_override = <<>>
    /\ stack = <<>>
    /\ blocks = <<>>
    /\ diags = <<>>
    /\ result = "none"
    /\ registered = <<>>
    /\ consumed = <<>>
    /\ genlog = <<>>
    /\ evals = <<>>
    /\ lowered_units = <<>>
    /\ modcache = <<>>
    /\ complog = <<>>
    /\ modlog = <<>>
    /\ phases = <<>>
    /\ uses = <<>>
    /\ first_run = NoRun
    /\ walk = IdleWalk
    /\ binding = IdleBinding
    /\ vhpi = IdleVhpi

\* elab_component asks for the specification of the instance
find_spec ==
    /\ pc = "find_spec"
    /\ vbind.state = "call"
    /\ vbind' = [vbind EXCEPT !.state = "done",
                              !.spec = elab_find_spec(vbind.inst, vbind.ctx)]
    /\ UNCHANGED NotVbind

SpecFindSpec == InitFindSpec /\ [][find_spec]_vars

\* the specifications of the block configuration for component C
SpecsFor(decls, C) ==
    {i \in DOMAIN decls : decls[i].kind = "T_SPEC" /\ decls[i].ident2 = C}

\* those that name the label L or all
Specific(decls, L, C) ==
    {i \in SpecsFor(decls, C) :
        decls[i].has_ident /\ decls[i].ident \in {L, "all"}}

\* those without a label
Unlabelled(decls, C) == {i \in SpecsFor(decls, C) : ~decls[i].has_ident}

\* the specification the claim lets elab_find_spec return
Applicable(inst, config) ==
    IF inst.spec.kind # "NULL" THEN {inst.spec}
    ELSE IF config.kind = "NULL" THEN {NoSpec}
    ELSE IF Specific(config.decls, inst.ident, inst.ref) # {}
    THEN {config.decls[i] : i \in Specific(config.decls, inst.ident, inst.ref)}
    ELSE IF Unlabelled(config.decls, inst.ref) # {}
    THEN {config.decls[i] : i \in Unlabelled(config.decls, inst.ref)}
    ELSE {NoSpec}

\* C27: the specification applied to instance L of component C is the one
\* attached to the instance if there is one; otherwise a specification of
\* the block configuration for C that names L or all if there is any, in
\* whatever position, otherwise one for C without a label, otherwise none.
C27_MostSpecificSpecApplies ==
    (vbind.fn = "elab_find_spec" /\ vbind.state = "done") =>
        vbind.spec \in Applicable(vbind.inst, vbind.ctx.config)

\* a specification without a label comes after one that names the label,
\* and the one that names the label was applied
C27_LabelledBeforeUnlabelled ==
    /\ vbind.fn = "elab_find_spec"
    /\ vbind.state = "done"
    /\ vbind.inst.spec.kind = "NULL"
    /\ vbind.ctx.config.kind # "NULL"
    /\ \E i \in Specific(vbind.ctx.config.decls, "U1", "SUB") :
          /\ vbind.ctx.config.decls[i].ident = "U1"
          /\ \E j \in Unlabelled(vbind.ctx.config.decls, "SUB") : i < j
          /\ vbind.spec = vbind.ctx.config.decls[i]
          /\ vbind.spec # vbind.ctx.config.decls[Len(vbind.ctx.config.decls)]


-----------------------------------------------------------------------------
(* C29: the lowered unit a step is handed *)

-----------------------------------------------------------------------------
(* C30: the names of the override table *)

OverrideNamesIn(table) == {table[i].name : i \in DOMAIN table}

NamesUnique(table) ==
    \A i, j \in DOMAIN table : table[i].name = table[j].name => i = j

\* the step is a call of elab_set_generic that ended in the fatal error
SetGenericFailed ==
    /\ pc = "setup"
    /\ pc' = "fatal"
    /\ Len(diags') = Len(diags) + 1
    /\ diags'[Len(diags')].msg = "generic already has value"

\* C30: the override table never holds two entries with the same name; a
\* call of elab_set_generic with a name the table holds is a fatal error and
\* leaves the table as it is, and any other call puts one new entry in front
\* of the entries the table holds, which stay as they are.
C30_OverrideNamesUnique ==
    [][ /\ NamesUnique(generic_override')
        /\ SetGenericFailed =>
              /\ generic_override' = generic_override
              /\ registered' = registered
              /\ diags'[Len(diags')].arg \in OverrideNamesIn(generic_override)
        /\ registered' # registered =>
              /\ Len(registered') = Len(registered) + 1
              /\ Len(generic_override') = Len(generic_override) + 1
              /\ Tail(generic_override') = generic_override
              /\ generic_override'[1].name = registered'[Len(registered')]
              /\ generic_override'[1].name \notin OverrideNamesIn(generic_override)
              /\ pc' = "setup"
        /\ (pc = "setup" /\ pc' = "setup") => registered' # registered
      ]_vars

\* elab_set_generic was called for the name the table holds
C30_SecondValueRefused ==
    /\ pc = "fatal"
    /\ Len(generic_override) = 1
    /\ registered = <<generic_override[1].name>>
    /\ Len(diags) = 1
    /\ diags[1].msg = "generic already has value"
    /\ diags[1].arg \in OverrideNamesIn(generic_override)

=============================================================================
